---- MODULE Spec2Model ----
(***************************************************************************)
(* pg-qperf-compare: the typed-model analyzer (src/core), its plan         *)
(* provider (src/core/database.py) and its config loader                   *)
(* (src/utils/config.py).                                                  *)
(*                                                                         *)
(* A raw plan node is a Python dict: a function from the keys it carries   *)
(* to their values, the optional key 'Plans' holding the list of raw child *)
(* nodes.  dict.get(key, default) is Get.  Times are carried in            *)
(* microseconds and costs in hundredths (EXPLAIN prints three and two      *)
(* decimals), so every float of the plan is an integer here; a quotient    *)
(* (hit rate, improvement) is an exact fraction in lowest terms.           *)
(***************************************************************************)
EXTENDS Integers, Sequences, FiniteSets, TLC

VARIABLES
    pc,          \* analyze_query: the call it is at
    result,      \* what execute_explain returned for the query
    metrics,     \* the PlanMetrics of calculate_performance_metrics
    raised,      \* the exception that left analyze_query, "" when none
    problems,    \* the list analyze_node_problems returned
    recommendations, \* the list analyze_index_recommendations returned
    cpc,         \* compare_queries: the call it is at
    provided,    \* what execute_explain returns for the two queries, in call order
    requested,   \* the query texts execute_explain was called with, in call order
    original,    \* analyze_query(original_path)
    optimized,   \* analyze_query(optimized_path)
    comparison,  \* the dict compare_queries returns
    handed,      \* analyze_queries: the arguments handed to the report generators
    lpc,         \* load_config: the line it is at
    filesystem,  \* the config file, what it loads as, and the files that exist
    config_data, \* what yaml.safe_load returned
    db_config,   \* the DatabaseConfig built
    checked,     \* the query files whose existence was checked, in order
    app_config,  \* the AppConfig load_config returns
    epc,         \* execute_explain: the line it is at
    query,       \* execute_explain: its argument
    server,      \* what the database does on connect and on each statement
    conn,        \* get_connection: its local conn
    plan,        \* execute_explain: its local plan
    opened,      \* connections opened
    closes,      \* calls of conn.close()
    statements,  \* the statements cursor.execute was given, in order
    explain_result \* what execute_explain returns

vars ==
    <<pc, result, metrics, raised, problems, recommendations,
      cpc, provided, requested, original, optimized, comparison, handed,
      lpc, filesystem, config_data, db_config, checked, app_config,
      epc, query, server, conn, plan, opened, closes, statements, explain_result>>

reportVars == <<handed>>

loaderVars == <<lpc, filesystem, config_data, db_config, checked, app_config>>

explainVars ==
    <<epc, query, server, conn, plan, opened, closes, statements, explain_result>>

queryVars == <<pc, result, metrics, raised>>

detectVars == <<problems, recommendations>>

compareVars == <<cpc, provided, requested, original, optimized, comparison>>

\* A local or field that holds nothing yet.
None == "None"

----------------------------------------------------------------------------
(* Python values *)

\* dict.get(key, default)
Get(d, key, default) == IF key \in DOMAIN d THEN d[key] ELSE default

\* The empty dict.
EmptyDict == [k \in {} |-> 0]

\* The elements of a list.
Range(list) == {list[i] : i \in 1..Len(list)}

\* A Python list argument is told from a dict by its type (isinstance).
PyList(items) == [is_list |-> TRUE, items |-> items]
PyDict(d) == [is_list |-> FALSE, dict |-> d]

RECURSIVE Gcd(_, _)
Gcd(a, b) == IF b = 0 THEN a ELSE Gcd(b, a % b)

Abs(x) == IF x < 0 THEN -x ELSE x

\* The quotient n / d (d > 0) as a fraction in lowest terms.
Frac(n, d) ==
    LET g == Gcd(Abs(n), d)
    IN [num |-> n \div g, den |-> d \div g]

\* The number 0 (the int 0 and the float 0.0 compare equal in Python).
Zero == [num |-> 0, den |-> 1]

\* a * 100 for a fraction a.
Times100(a) == Frac(a.num * 100, a.den)

\* What a call or an expression ends with: a value, or the exception that left it.
Return(value) == [raised |-> "", value |-> value]
Raise(exception) == [raised |-> exception]

\* n / d for numbers n and d >= 0: Python raises on a zero divisor.
true_divide(n, d) ==
    IF d = 0 THEN Raise("ZeroDivisionError") ELSE Return(Frac(n, d))

----------------------------------------------------------------------------
(* The plan provider's wire format: raw plan nodes *)

\* The raw keys extract_node_metrics reads, by the kind of value they hold.
NumericKeys ==
    {"Actual Rows", "Actual Total Time", "Plan Rows", "Total Cost", "Startup Cost",
     "Shared Hit Blocks", "Shared Read Blocks", "Shared Dirtied Blocks",
     "Shared Written Blocks", "Temp Read Blocks", "Temp Written Blocks",
     "I/O Read Time", "I/O Write Time", "Rows Removed by Filter"}

LoopKeys == {"Actual Loops"}

TextKeys ==
    {"Node Type", "Filter", "Scan Direction", "Index Name", "Index Cond",
     "Join Type", "Hash Cond", "Relation Name"}

\* Keys of the wire format that the report-side analyzer reads from the raw node
\* and extract_node_metrics does not: startup time, merge condition, join filter
\* and sort keys.
UnmappedKeys == {"Actual Startup Time", "Merge Cond", "Join Filter", "Sort Key"}

\* Raw nodes without their children, as EXPLAIN (ANALYZE, BUFFERS, FORMAT JSON)
\* prints them: each carries the keys of its operator only.
NodeSeqOrders ==
    ("Node Type" :> "Seq Scan") @@ ("Relation Name" :> "orders") @@
    ("Actual Rows" :> 5000) @@ ("Plan Rows" :> 100) @@
    ("Actual Total Time" :> 1500) @@ ("Actual Startup Time" :> 10) @@
    ("Actual Loops" :> 1) @@ ("Total Cost" :> 20000) @@ ("Startup Cost" :> 0) @@
    ("Shared Hit Blocks" :> 3) @@ ("Shared Read Blocks" :> 1) @@
    ("Shared Dirtied Blocks" :> 1) @@ ("Shared Written Blocks" :> 0) @@
    ("I/O Read Time" :> 5) @@
    ("Filter" :> "(status = 'open')") @@ ("Rows Removed by Filter" :> 2000)

NodeIndexOrders ==
    ("Node Type" :> "Index Scan") @@ ("Relation Name" :> "orders") @@
    ("Actual Rows" :> 10) @@ ("Plan Rows" :> 10) @@
    ("Actual Total Time" :> 20) @@ ("Actual Startup Time" :> 1) @@
    ("Actual Loops" :> 3) @@ ("Total Cost" :> 800) @@ ("Startup Cost" :> 42) @@
    ("Shared Hit Blocks" :> 0) @@ ("Shared Read Blocks" :> 2) @@
    ("Scan Direction" :> "Forward") @@ ("Index Name" :> "orders_pkey") @@
    ("Index Cond" :> "(id = 42)")

NodeHashJoin ==
    ("Node Type" :> "Hash Join") @@ ("Join Type" :> "Inner") @@
    ("Hash Cond" :> "(o.customer_id = c.id)") @@
    ("Join Filter" :> "(o.total > c.credit)") @@
    ("Actual Rows" :> 50) @@ ("Plan Rows" :> 500) @@
    ("Actual Total Time" :> 3000) @@ ("Actual Loops" :> 1) @@
    ("Total Cost" :> 50000) @@ ("Startup Cost" :> 100) @@
    ("Shared Written Blocks" :> 1) @@
    ("Temp Read Blocks" :> 4) @@ ("Temp Written Blocks" :> 2) @@
    ("I/O Write Time" :> 7)

NodeMergeJoin ==
    ("Node Type" :> "Merge Join") @@ ("Join Type" :> "Left") @@
    ("Merge Cond" :> "(o.customer_id = c.id)") @@
    ("Actual Rows" :> 1000) @@ ("Plan Rows" :> 0) @@
    ("Actual Total Time" :> 700) @@ ("Actual Startup Time" :> 30) @@
    ("Total Cost" :> 900)

NodeSort ==
    ("Node Type" :> "Sort") @@ ("Sort Key" :> <<"o.created_at", "o.id">>) @@
    ("Actual Rows" :> 1001) @@ ("Plan Rows" :> 1000) @@
    ("Actual Total Time" :> 400) @@ ("Actual Startup Time" :> 300) @@
    ("Actual Loops" :> 1) @@ ("Total Cost" :> 6000) @@
    ("Shared Hit Blocks" :> 2) @@
    ("Temp Read Blocks" :> 6) @@ ("Temp Written Blocks" :> 6)

NodeBitmapOrders ==
    ("Node Type" :> "Bitmap Heap Scan") @@ ("Relation Name" :> "orders") @@
    ("Actual Rows" :> 200) @@ ("Actual Loops" :> 2) @@
    ("Actual Total Time" :> 90) @@ ("Total Cost" :> 1200) @@
    ("Shared Hit Blocks" :> 5) @@ ("Shared Dirtied Blocks" :> 2)

NodeSeqCustomers ==
    ("Node Type" :> "Seq Scan") @@ ("Relation Name" :> "customers") @@
    ("Actual Rows" :> 1000) @@ ("Plan Rows" :> 50) @@
    ("Actual Total Time" :> 60) @@ ("Total Cost" :> 300) @@
    ("Shared Read Blocks" :> 4)

\* A node that carries none of the optional keys.
NodeBare == EmptyDict

RawNodes ==
    {NodeSeqOrders, NodeIndexOrders, NodeHashJoin, NodeMergeJoin, NodeSort,
     NodeBitmapOrders, NodeSeqCustomers, NodeBare}

\* The largest plan tree analysed, in nodes.
MaxNodes == 3

\* Plan trees of exactly n nodes (RawTreesOf) and lists of plan trees of n nodes
\* in all (RawForestsOf).  A node without children has no 'Plans' key.
RECURSIVE RawTreesOf(_)
RECURSIVE RawForestsOf(_)
RawTreesOf(n) ==
    IF n = 1
    THEN RawNodes
    ELSE {node @@ ("Plans" :> f) : node \in RawNodes, f \in RawForestsOf(n - 1)}

RawForestsOf(n) ==
    IF n = 0
    THEN {<<>>}
    ELSE UNION {{<<t>> \o f : t \in RawTreesOf(k), f \in RawForestsOf(n - k)} : k \in 1..n}

RawTrees == UNION {RawTreesOf(n) : n \in 1..MaxNodes}

\* Raw nodes at and around the thresholds of the two detectors of
\* src/core/analyzer.py (1000 rows, a ratio of 10 and of 0.1) and with the
\* condition texts their column extraction reads.
NodeNestedLoop ==
    ("Node Type" :> "Nested Loop") @@ ("Join Type" :> "Inner") @@
    ("Join Filter" :> "(o.total > c.credit)") @@
    ("Actual Rows" :> 1500) @@ ("Plan Rows" :> 20000) @@
    ("Actual Total Time" :> 2500) @@ ("Actual Loops" :> 1) @@
    ("Total Cost" :> 70000)

NodeSeqLarge ==
    ("Node Type" :> "Seq Scan") @@ ("Relation Name" :> "events") @@
    ("Actual Rows" :> 5000) @@ ("Plan Rows" :> 5000) @@
    ("Actual Total Time" :> 900) @@ ("Total Cost" :> 11000)

NodeSeqFiltered ==
    ("Node Type" :> "Seq Scan") @@ ("Relation Name" :> "orders") @@
    ("Actual Rows" :> 2000) @@ ("Plan Rows" :> 2000) @@
    ("Actual Total Time" :> 800) @@ ("Total Cost" :> 15000) @@
    ("Filter" :> "customer_id = 42") @@ ("Rows Removed by Filter" :> 1000)

NodeSeqAtThreshold ==
    ("Node Type" :> "Seq Scan") @@ ("Relation Name" :> "orders") @@
    ("Actual Rows" :> 1000) @@ ("Plan Rows" :> 100) @@
    ("Actual Total Time" :> 300) @@ ("Total Cost" :> 15000) @@
    ("Filter" :> "customer_id = 42") @@ ("Rows Removed by Filter" :> 1000)

NodeSeqRepeated ==
    ("Node Type" :> "Seq Scan") @@ ("Relation Name" :> "t1") @@
    ("Actual Rows" :> 3000) @@ ("Plan Rows" :> 200) @@
    ("Actual Total Time" :> 500) @@ ("Total Cost" :> 9000) @@
    ("Filter" :> "a = 1 AND a = 2") @@ ("Rows Removed by Filter" :> 1001)

NodeSeqUnparsed ==
    ("Node Type" :> "Seq Scan") @@ ("Relation Name" :> "customers") @@
    ("Actual Rows" :> 6000) @@ ("Plan Rows" :> 60001) @@
    ("Actual Total Time" :> 650) @@ ("Total Cost" :> 12000) @@
    ("Filter" :> "name LIKE 'A%'")

NodeHashJoinSameColumn ==
    ("Node Type" :> "Hash Join") @@ ("Join Type" :> "Inner") @@
    ("Hash Cond" :> "t1.id = t2.id") @@
    ("Actual Rows" :> 1000) @@ ("Plan Rows" :> 10) @@
    ("Actual Total Time" :> 1200) @@ ("Total Cost" :> 30000)

NodeSeqMixed ==
    ("Node Type" :> "Seq Scan") @@ ("Relation Name" :> "orders") @@
    ("Actual Rows" :> 7000) @@ ("Plan Rows" :> 7000) @@
    ("Actual Total Time" :> 950) @@ ("Total Cost" :> 16000) @@
    ("Filter" :> "name LIKE 'A%' AND status = 'open'")

NodeSeqNoRelation ==
    ("Node Type" :> "Seq Scan") @@
    ("Actual Rows" :> 4000) @@ ("Plan Rows" :> 4000) @@
    ("Actual Total Time" :> 700) @@ ("Total Cost" :> 13000) @@
    ("Filter" :> "o.total >= 100 OR id IN (1, 2)")

NodeHashJoinUnqualified ==
    ("Node Type" :> "Hash Join") @@ ("Join Type" :> "Inner") @@
    ("Hash Cond" :> "(id = c.id)") @@
    ("Actual Rows" :> 300) @@ ("Plan Rows" :> 300) @@
    ("Actual Total Time" :> 400) @@ ("Total Cost" :> 5000)

DetectorNodes ==
    {NodeNestedLoop, NodeSeqLarge, NodeSeqFiltered, NodeSeqAtThreshold,
     NodeSeqRepeated, NodeSeqUnparsed, NodeHashJoinSameColumn,
     NodeSeqMixed, NodeSeqNoRelation, NodeHashJoinUnqualified}

\* The largest plan tree analysed that holds one of them, in nodes.
MaxDetectorNodes == 2

RECURSIVE DetectorTreesOf(_)
RECURSIVE DetectorForestsOf(_)
DetectorTreesOf(n) ==
    IF n = 1
    THEN RawNodes \cup DetectorNodes
    ELSE {node @@ ("Plans" :> f) :
            node \in RawNodes \cup DetectorNodes, f \in DetectorForestsOf(n - 1)}

DetectorForestsOf(n) ==
    IF n = 0
    THEN {<<>>}
    ELSE UNION {{<<t>> \o f : t \in DetectorTreesOf(k), f \in DetectorForestsOf(n - k)} :
                   k \in 1..n}

DetectorTrees == UNION {DetectorTreesOf(n) : n \in 1..MaxDetectorNodes}

\* Plans of four nodes in which a node has both a grandchild and a second child.
BranchingNodes == {NodeSort, NodeSeqOrders, NodeNestedLoop}

BranchingTrees ==
    {root @@ ("Plans" :> <<first @@ ("Plans" :> <<below>>), second>>) :
        root \in BranchingNodes, first \in BranchingNodes,
        below \in BranchingNodes, second \in BranchingNodes}

----------------------------------------------------------------------------
(* src/core/metrics.py: MetricsExtractor *)

\* for item in items: acc = Body(item, acc)
RECURSIVE ForEach(_, _, _)
ForEach(Body(_, _), items, acc) ==
    IF Len(items) = 0
    THEN acc
    ELSE ForEach(Body, Tail(items), Body(Head(items), acc))

\* The raw children from the last to the first.
child_plans_reversed(node) ==
    IF "Plans" \in DOMAIN node
    THEN [i \in 1..Len(node["Plans"]) |-> node["Plans"][Len(node["Plans"]) + 1 - i]]
    ELSE <<>>

\* Lines 51-53: the raw children extract_node_metrics walks, in their order.
child_plans(node) == IF "Plans" \in DOMAIN node THEN node["Plans"] ELSE <<>>

\* The default of the other numeric fields for the loop count.
actual_loops_default_zero(node) == Get(node, "Actual Loops", 0)

\* Line 60
actual_loops(node) == Get(node, "Actual Loops", 1)

RECURSIVE extract_node_metrics(_)
extract_node_metrics(node) ==
    LET plans == child_plans(node)
        children == [i \in 1..Len(plans) |-> extract_node_metrics(plans[i])]
    IN [node_type              |-> Get(node, "Node Type", ""),
        actual_rows            |-> Get(node, "Actual Rows", 0),
        actual_time            |-> Get(node, "Actual Total Time", 0),
        actual_loops           |-> actual_loops(node),
        planned_rows           |-> Get(node, "Plan Rows", 0),
        total_cost             |-> Get(node, "Total Cost", 0),
        startup_cost           |-> Get(node, "Startup Cost", 0),
        shared_hit_blocks      |-> Get(node, "Shared Hit Blocks", 0),
        shared_read_blocks     |-> Get(node, "Shared Read Blocks", 0),
        shared_dirtied_blocks  |-> Get(node, "Shared Dirtied Blocks", 0),
        shared_written_blocks  |-> Get(node, "Shared Written Blocks", 0),
        temp_read_blocks       |-> Get(node, "Temp Read Blocks", 0),
        temp_written_blocks    |-> Get(node, "Temp Written Blocks", 0),
        io_read_time           |-> Get(node, "I/O Read Time", 0),
        io_write_time          |-> Get(node, "I/O Write Time", 0),
        filter                 |-> Get(node, "Filter", ""),
        rows_removed_by_filter |-> Get(node, "Rows Removed by Filter", 0),
        scan_direction         |-> Get(node, "Scan Direction", ""),
        index_name             |-> Get(node, "Index Name", ""),
        index_cond             |-> Get(node, "Index Cond", ""),
        join_type              |-> Get(node, "Join Type", ""),
        hash_condition         |-> Get(node, "Hash Cond", ""),
        relation_name          |-> Get(node, "Relation Name", ""),
        children               |-> children]

\* The keys of the dict extract_io_metrics returns; each is a NodeMetrics field.
IoKeys ==
    {"shared_hit_blocks", "shared_read_blocks", "shared_dirtied_blocks",
     "shared_written_blocks", "temp_read_blocks", "temp_written_blocks"}

\* The counters of the node alone, its children never visited.
extract_io_metrics_own(node) == [key \in IoKeys |-> node[key]]

RECURSIVE extract_io_metrics(_)
extract_io_metrics(node) ==
    LET own == [key \in IoKeys |-> node[key]]
        AddChild(child, acc) ==
            LET child_metrics == extract_io_metrics(child)
            IN [key \in IoKeys |-> acc[key] + child_metrics[key]]
    IN ForEach(AddChild, node.children, own)

\* The counters of the node added, its children never visited.
extract_recursive_own(node, stats) ==
    [stats EXCEPT !.buffers_hit = @ + node.shared_hit_blocks,
                  !.buffers_read = @ + node.shared_read_blocks,
                  !.buffers_dirtied = @ + node.shared_dirtied_blocks,
                  !.buffers_written = @ + node.shared_written_blocks]

\* The inner function of extract_buffer_stats: it adds to the enclosing stats.
RECURSIVE extract_recursive(_, _)
extract_recursive(node, stats) ==
    ForEach(extract_recursive, node.children,
            [stats EXCEPT !.buffers_hit = @ + node.shared_hit_blocks,
                          !.buffers_read = @ + node.shared_read_blocks,
                          !.buffers_dirtied = @ + node.shared_dirtied_blocks,
                          !.buffers_written = @ + node.shared_written_blocks])

\* The share of the reads instead of the hits.
buffers_read_rate(buffers_hit, buffers_read) ==
    LET total_buffers == buffers_hit + buffers_read
    IN IF total_buffers > 0
       THEN Return(Times100(Frac(buffers_read, total_buffers)))
       ELSE Return(Zero)

\* Lines 125-127: the rate kept in stats, the 0.0 it starts with when there is
\* no buffer access.
buffers_hit_rate(buffers_hit, buffers_read) ==
    LET total_buffers == buffers_hit + buffers_read
    IN IF total_buffers > 0
       THEN LET quotient == true_divide(buffers_hit, total_buffers)
            IN IF quotient.raised # ""
               THEN quotient
               ELSE Return(Times100(quotient.value))
       ELSE Return(Zero)

extract_buffer_stats(node) ==
    LET stats == extract_recursive(node,
                     [buffers_hit |-> 0, buffers_read |-> 0, buffers_dirtied |-> 0,
                      buffers_written |-> 0, buffers_hit_rate |-> Zero])
        rate == buffers_hit_rate(stats.buffers_hit, stats.buffers_read)
    IN IF rate.raised # ""
       THEN rate
       ELSE Return([stats EXCEPT !.buffers_hit_rate = rate.value])

\* The entry started again at every node of the type.
add_node_restarted(entry, node) ==
    [count      |-> 1,
     total_time |-> node.actual_time,
     total_rows |-> node.actual_rows,
     total_cost |-> node.total_cost]

\* The time of all the loops of the node, as the report-side analyzer adds it.
add_node_times_loops(entry, node) ==
    [count      |-> entry.count + 1,
     total_time |-> entry.total_time + node.actual_time * node.actual_loops,
     total_rows |-> entry.total_rows + node.actual_rows,
     total_cost |-> entry.total_cost + node.total_cost]

\* Lines 146-149: one node added to the entry of its type.
add_node(entry, node) ==
    [count      |-> entry.count + 1,
     total_time |-> entry.total_time + node.actual_time,
     total_rows |-> entry.total_rows + node.actual_rows,
     total_cost |-> entry.total_cost + node.total_cost]

RECURSIVE analyze_node_type_stats(_, _)
analyze_node_type_stats(node, stats) ==
    LET node_type == node.node_type
        known == IF node_type \in DOMAIN stats
                 THEN stats
                 ELSE stats @@ (node_type :> [count |-> 0, total_time |-> 0,
                                              total_rows |-> 0, total_cost |-> 0])
        counted == [known EXCEPT ![node_type] = add_node(@, node)]
    IN ForEach(analyze_node_type_stats, node.children, counted)

\* The words of a node type: 'Index' in node_type holds when 'Index' is one of them
\* (no node type of the plan vocabulary holds either word inside another word).
Words(s) ==
    CASE s = "Seq Scan"         -> <<"Seq", "Scan">>
      [] s = "Index Scan"       -> <<"Index", "Scan">>
      [] s = "Bitmap Heap Scan" -> <<"Bitmap", "Heap", "Scan">>
      [] s = "Hash Join"        -> <<"Hash", "Join">>
      [] s = "Merge Join"       -> <<"Merge", "Join">>
      [] s = "Sort"             -> <<"Sort">>
      [] s = "Nested Loop"      -> <<"Nested", "Loop">>
      [] OTHER                  -> <<>>

\* sub in s, for a word sub
Contains(sub, s) == \E i \in 1..Len(Words(s)) : Words(s)[i] = sub

\* An index scan taken over whatever scan type is stored.
better_scan_type_any_stored(stored, node_type) ==
    IF Contains("Index", node_type)
    THEN node_type
    ELSE stored

\* The scan type kept for a relation seen before (lines 172-173).
better_scan_type(stored, node_type) ==
    IF Contains("Index", node_type) /\ Contains("Seq", stored)
    THEN node_type
    ELSE stored

RECURSIVE analyze_table_stats(_, _)
analyze_table_stats(node, stats) ==
    LET rel == node.relation_name
        seen ==
            IF rel # ""
            THEN IF rel \notin DOMAIN stats
                 THEN stats @@ (rel :> [scan_type |-> node.node_type,
                                        rows      |-> node.actual_rows,
                                        width     |-> 0,
                                        cost      |-> node.total_cost])
                 ELSE [stats EXCEPT ![rel] =
                          [scan_type |-> better_scan_type(@.scan_type, node.node_type),
                           rows      |-> @.rows + node.actual_rows,
                           width     |-> @.width,
                           cost      |-> @.cost + node.total_cost]]
            ELSE stats
    IN ForEach(analyze_table_stats, node.children, seen)

calculate_performance_metrics(arg) ==
    IF arg.is_list /\ Len(arg.items) = 0
    THEN Raise("IndexError")
    ELSE
      LET unwrapped == IF arg.is_list THEN arg.items[1] ELSE arg.dict
          planning == Get(unwrapped, "Planning Time", 0)
          execution == Get(unwrapped, "Execution Time", 0)
      IN IF "Plan" \notin DOMAIN unwrapped
         THEN Raise("KeyError")
         ELSE
           LET node == extract_node_metrics(unwrapped["Plan"])
               buffers == extract_buffer_stats(node)
           IN IF buffers.raised # ""
              THEN buffers
              ELSE Return([planning_time   |-> planning,
                           execution_time  |-> execution,
                           total_time      |-> planning + execution,
                           row_count       |-> node.actual_rows,
                           node_metrics    |-> node,
                           io_metrics      |-> extract_io_metrics(node),
                           node_type_stats |-> analyze_node_type_stats(node, EmptyDict),
                           table_stats     |-> analyze_table_stats(node, EmptyDict),
                           buffer_stats    |-> buffers.value])

----------------------------------------------------------------------------
(* src/core/analyzer.py: QueryAnalyzer *)

\* Problem(severity=..., description=f"..."): the description is kept as the
\* text of the f-string and the values it prints.
Problem(severity, description) == [severity |-> severity, description |-> description]

\* a > b and a < b for a fraction a and the numbers 10 and 0.1.  The float
\* quotient of two row counts below 2^53 lies on the same side of 10 and of 0.1
\* as the exact quotient, and is the float 0.1 only when the exact one is 1/10.
GreaterThan10(a) == a.num > 10 * a.den

LessThanTenth(a) == 10 * a.num < a.den

\* The row threshold met as well as passed.
seq_scan_problem_from_threshold(node) ==
    IF node.node_type = "Seq Scan" /\ node.actual_rows >= 1000
    THEN <<Problem("HIGH", <<"Sequential scan on large table", node.actual_rows>>)>>
    ELSE <<>>

\* Lines 45-49
seq_scan_problem(node) ==
    IF node.node_type = "Seq Scan" /\ node.actual_rows > 1000
    THEN <<Problem("HIGH", <<"Sequential scan on large table", node.actual_rows>>)>>
    ELSE <<>>

\* The ratio taken whatever the estimate is.
row_estimate_problem_unguarded(node) ==
    LET estimate_ratio == true_divide(node.actual_rows, node.planned_rows)
    IN IF estimate_ratio.raised # ""
       THEN estimate_ratio
       ELSE IF GreaterThan10(estimate_ratio.value) \/ LessThanTenth(estimate_ratio.value)
       THEN Return(<<Problem("MEDIUM",
                             <<"Poor row estimation in", node.node_type,
                               node.planned_rows, node.actual_rows,
                               estimate_ratio.value>>)>>)
       ELSE Return(<<>>)

\* Lines 52-58: the only rule that divides.
row_estimate_problem(node) ==
    IF node.planned_rows > 0
    THEN LET estimate_ratio == true_divide(node.actual_rows, node.planned_rows)
         IN IF estimate_ratio.raised # ""
            THEN estimate_ratio
            ELSE IF GreaterThan10(estimate_ratio.value) \/ LessThanTenth(estimate_ratio.value)
            THEN Return(<<Problem("MEDIUM",
                                  <<"Poor row estimation in", node.node_type,
                                    node.planned_rows, node.actual_rows,
                                    estimate_ratio.value>>)>>)
            ELSE Return(<<>>)
    ELSE Return(<<>>)

\* Lines 61-65
sort_problem(node) ==
    IF node.node_type = "Sort" /\ node.actual_rows > 1000
    THEN <<Problem("MEDIUM", <<"Expensive sort operation on", node.actual_rows>>)>>
    ELSE <<>>

\* Lines 68-72
nested_loop_problem(node) ==
    IF node.node_type = "Nested Loop" /\ node.actual_rows > 1000
    THEN <<Problem("HIGH", <<"Nested loop join with large number of rows",
                             node.actual_rows>>)>>
    ELSE <<>>

\* Lines 75-79
filter_problem(node) ==
    IF node.rows_removed_by_filter > 1000
    THEN <<Problem("MEDIUM", <<"Large number of rows removed by filter",
                               node.rows_removed_by_filter>>)>>
    ELSE <<>>

\* Lines 45-79: what one call of analyze_node_recursive appends for its node.
node_problems(node) ==
    LET estimate == row_estimate_problem(node)
    IN IF estimate.raised # ""
       THEN estimate
       ELSE Return(seq_scan_problem(node) \o estimate.value \o sort_problem(node)
                   \o nested_loop_problem(node) \o filter_problem(node))

\* The children walked before the problems of the node are appended.
RECURSIVE problems_children_first(_, _)
problems_children_first(node, found) ==
    LET below == ForEach(problems_children_first, node.children, found)
        own == node_problems(node)
    IN IF below.raised # ""
       THEN below
       ELSE IF own.raised # ""
       THEN own
       ELSE Return(below.value \o own.value)

\* analyze_node_problems.analyze_node_recursive, the list it appends to handed
\* on from call to call.
RECURSIVE problems_analyze_node_recursive(_, _)
problems_analyze_node_recursive(node, found) ==
    IF found.raised # ""
    THEN found
    ELSE LET own == node_problems(node)
         IN IF own.raised # ""
            THEN own
            ELSE ForEach(problems_analyze_node_recursive, node.children,
                         Return(found.value \o own.value))

analyze_node_problems(node) == problems_analyze_node_recursive(node, Return(<<>>))

\* The characters that are no word character (\w) in the condition texts.
NonWord == {" ", "=", "<", ">", ".", "(", ")", "'", "%", ",", "!"}

IsWord(lexeme) == lexeme \notin NonWord

\* A condition text as the regular expressions read it: every maximal run of
\* word characters and every other character, a space included, in their order.
Lexemes(text) ==
    CASE text = "" -> <<>>
      [] text = "(status = 'open')" ->
            <<"(", "status", " ", "=", " ", "'", "open", "'", ")">>
      [] text = "(id = 42)" ->
            <<"(", "id", " ", "=", " ", "42", ")">>
      [] text = "(o.customer_id = c.id)" ->
            <<"(", "o", ".", "customer_id", " ", "=", " ", "c", ".", "id", ")">>
      [] text = "(o.total > c.credit)" ->
            <<"(", "o", ".", "total", " ", ">", " ", "c", ".", "credit", ")">>
      [] text = "customer_id = 42" ->
            <<"customer_id", " ", "=", " ", "42">>
      [] text = "a = 1 AND a = 2" ->
            <<"a", " ", "=", " ", "1", " ", "AND", " ", "a", " ", "=", " ", "2">>
      [] text = "name LIKE 'A%'" ->
            <<"name", " ", "LIKE", " ", "'", "A", "%", "'">>
      [] text = "t1.id = t2.id" ->
            <<"t1", ".", "id", " ", "=", " ", "t2", ".", "id">>
      [] text = "name LIKE 'A%' AND status = 'open'" ->
            <<"name", " ", "LIKE", " ", "'", "A", "%", "'", " ", "AND", " ",
              "status", " ", "=", " ", "'", "open", "'">>
      [] text = "o.total >= 100 OR id IN (1, 2)" ->
            <<"o", ".", "total", " ", ">", "=", " ", "100", " ", "OR", " ",
              "id", " ", "IN", " ", "(", "1", ",", " ", "2", ")">>
      [] text = "(id = c.id)" ->
            <<"(", "id", " ", "=", " ", "c", ".", "id", ")">>

\* The least element of a non-empty set of numbers.
Min(S) == CHOOSE x \in S : \A y \in S : x <= y

\* re.split(r'\s+AND\s+|\s+OR\s+', condition): the text is cut at the leftmost
\* AND or OR that stands between white space, the white space around it
\* dropped, and the rest is cut in the same way.
RECURSIVE re_split(_)
re_split(lexemes) ==
    LET found == {k \in 2..(Len(lexemes) - 1) :
                     /\ lexemes[k] \in {"AND", "OR"}
                     /\ lexemes[k - 1] = " "
                     /\ lexemes[k + 1] = " "}
    IN IF found = {}
       THEN <<lexemes>>
       ELSE LET k == Min(found)
                first == Min({i \in 1..(k - 1) : \A j \in i..(k - 1) : lexemes[j] = " "})
                last == CHOOSE j \in (k + 1)..Len(lexemes) :
                            /\ \A i \in (k + 1)..j : lexemes[i] = " "
                            /\ j = Len(lexemes) \/ lexemes[j + 1] # " "
            IN <<SubSeq(lexemes, 1, first - 1)>>
                   \o re_split(SubSeq(lexemes, last + 1, Len(lexemes)))

\* re.search(r'(\w+)\s*[=<>]', part): the places of the words that white space
\* alone parts from a =, < or >; the match is the leftmost.
ComparedAt(part) ==
    {k \in 1..Len(part) :
        /\ IsWord(part[k])
        /\ \E j \in (k + 1)..Len(part) :
              /\ part[j] \in {"=", "<", ">"}
              /\ \A i \in (k + 1)..(j - 1) : part[i] = " "}

\* A part that does not match voiding the columns found before it.
append_column_or_give_up(part, columns) ==
    IF ComparedAt(part) # {}
    THEN Append(columns, part[Min(ComparedAt(part))])
    ELSE <<>>

\* Lines 130-132: match.group(1) appended when the part matches.
append_column(part, columns) ==
    IF ComparedAt(part) # {}
    THEN Append(columns, part[Min(ComparedAt(part))])
    ELSE columns

\* _extract_columns_from_condition
extract_columns_from_condition(condition) ==
    ForEach(append_column, re_split(Lexemes(condition)), <<>>)

\* condition.split(' = ')
RECURSIVE split_equals(_)
split_equals(lexemes) ==
    LET found == {k \in 1..(Len(lexemes) - 2) :
                     lexemes[k] = " " /\ lexemes[k + 1] = "=" /\ lexemes[k + 2] = " "}
    IN IF found = {}
       THEN <<lexemes>>
       ELSE <<SubSeq(lexemes, 1, Min(found) - 1)>>
                \o split_equals(SubSeq(lexemes, Min(found) + 3, Len(lexemes)))

\* re.search(r'(\w+)\.(\w+)', part): the places of the words that a dot and a
\* word follow.
QualifiedAt(part) ==
    {k \in 1..(Len(part) - 2) :
        IsWord(part[k]) /\ part[k + 1] = "." /\ IsWord(part[k + 2])}

\* Lines 142-144: match.group(2) appended when the part matches.
append_join_column(part, columns) ==
    IF QualifiedAt(part) # {}
    THEN Append(columns, part[Min(QualifiedAt(part)) + 2])
    ELSE columns

\* _extract_join_columns
extract_join_columns(condition) ==
    ForEach(append_join_column, split_equals(Lexemes(condition)), <<>>)

\* IndexRecommendation(table=..., columns=..., reason=f"..."): the reason is kept
\* as the text of the f-string and the columns it joins.
IndexRecommendation(table, columns, reason) ==
    [table |-> table, columns |-> columns, reason |-> reason]

\* The row threshold met as well as passed.
seq_scan_recommendation_from_threshold(node) ==
    IF node.node_type = "Seq Scan" /\ node.actual_rows >= 1000 /\ node.filter # ""
    THEN LET columns == extract_columns_from_condition(node.filter)
         IN IF columns # <<>>
            THEN <<IndexRecommendation(
                       node.relation_name, columns,
                       <<"High row count sequential scan with filter on", columns>>)>>
            ELSE <<>>
    ELSE <<>>

\* Lines 94-102
seq_scan_recommendation(node) ==
    IF node.node_type = "Seq Scan" /\ node.actual_rows > 1000 /\ node.filter # ""
    THEN LET columns == extract_columns_from_condition(node.filter)
         IN IF columns # <<>>
            THEN <<IndexRecommendation(
                       node.relation_name, columns,
                       <<"High row count sequential scan with filter on", columns>>)>>
            ELSE <<>>
    ELSE <<>>

\* Lines 105-114: one recommendation for every child that names a relation.
hash_join_recommendations(node) ==
    IF node.node_type = "Hash Join" /\ node.hash_condition # ""
    THEN LET columns == extract_join_columns(node.hash_condition)
             named == SelectSeq(node.children, LAMBDA child : child.relation_name # "")
         IN IF columns # <<>>
            THEN [i \in 1..Len(named) |->
                     IndexRecommendation(named[i].relation_name, columns,
                                         <<"Hash join condition on", columns>>)]
            ELSE <<>>
    ELSE <<>>

\* analyze_index_recommendations.analyze_node_recursive, the list it appends to
\* handed on from call to call (its parent argument is never read).
RECURSIVE recommendations_analyze_node_recursive(_, _)
recommendations_analyze_node_recursive(node, found) ==
    ForEach(recommendations_analyze_node_recursive, node.children,
            found \o seq_scan_recommendation(node) \o hash_join_recommendations(node))

analyze_index_recommendations(node) == recommendations_analyze_node_recursive(node, <<>>)

\* Path.read_text() of the two query files.
read_text(query_path) ==
    IF query_path = "original.sql" THEN "SELECT * FROM test;" ELSE "SELECT id FROM test;"

\* The 'plan' member alone returned as the raw plan.
analyze_query_plan_member(query_path, explained) ==
    LET query_text == read_text(query_path)
        calculated == calculate_performance_metrics(explained.plan)
    IN IF calculated.raised # ""
       THEN Raise(calculated.raised)
       ELSE LET found == analyze_node_problems(calculated.value.node_metrics)
            IN IF found.raised # ""
               THEN Raise(found.raised)
               ELSE Return([query_path      |-> query_path,
                            metrics         |-> calculated.value,
                            query_text      |-> query_text,
                            problems        |-> found.value,
                            recommendations |->
                                analyze_index_recommendations(
                                    calculated.value.node_metrics),
                            raw_plan        |-> explained.plan])

\* The detectors taking the children off the tree they walked.
analyze_query_pruning(query_path, explained) ==
    LET query_text == read_text(query_path)
        calculated == calculate_performance_metrics(explained.plan)
    IN IF calculated.raised # ""
       THEN Raise(calculated.raised)
       ELSE LET found == analyze_node_problems(calculated.value.node_metrics)
            IN IF found.raised # ""
               THEN Raise(found.raised)
               ELSE Return([query_path      |-> query_path,
                            metrics         |->
                                [calculated.value EXCEPT !.node_metrics.children = <<>>],
                            query_text      |-> query_text,
                            problems        |-> found.value,
                            recommendations |->
                                analyze_index_recommendations(
                                    calculated.value.node_metrics),
                            raw_plan        |-> explained])

analyze_query(query_path, explained) ==
    LET query_text == read_text(query_path)
        calculated == calculate_performance_metrics(explained.plan)
    IN IF calculated.raised # ""
       THEN Raise(calculated.raised)
       ELSE LET found == analyze_node_problems(calculated.value.node_metrics)
            IN IF found.raised # ""
               THEN Raise(found.raised)
               ELSE Return([query_path      |-> query_path,
                            metrics         |-> calculated.value,
                            query_text      |-> query_text,
                            problems        |-> found.value,
                            recommendations |->
                                analyze_index_recommendations(
                                    calculated.value.node_metrics),
                            raw_plan        |-> explained])

\* Lines 155-156 and 158-159: the improvement in percent, 0 on a zero original.
\* The difference taken the other way round.
improvement_reversed(original_time, optimized_time) ==
    LET diff == optimized_time - original_time
    IN IF original_time > 0
       THEN LET quotient == true_divide(diff, original_time)
            IN IF quotient.raised # ""
               THEN quotient
               ELSE Return(Times100(quotient.value))
       ELSE Return(Zero)

\* The guard on the optimized time instead of the original one.
improvement_wrong_guard(original_time, optimized_time) ==
    LET diff == original_time - optimized_time
    IN IF optimized_time > 0
       THEN LET quotient == true_divide(diff, original_time)
            IN IF quotient.raised # ""
               THEN quotient
               ELSE Return(Times100(quotient.value))
       ELSE Return(Zero)

improvement(original_time, optimized_time) ==
    LET diff == original_time - optimized_time
    IN IF original_time > 0
       THEN LET quotient == true_divide(diff, original_time)
            IN IF quotient.raised # ""
               THEN quotient
               ELSE Return(Times100(quotient.value))
       ELSE Return(Zero)

----------------------------------------------------------------------------
(* Inputs *)

\* The root of a raw plan.
TopLevel(planning, execution, tree) ==
    ("Planning Time" :> planning) @@ ("Execution Time" :> execution) @@ ("Plan" :> tree)

\* Raw plans around one node: complete, without one or both times, without
\* 'Plan', and inside a list.
SmallPlans ==
    UNION {{PyDict(("Execution Time" :> 2000) @@ ("Plan" :> node)),
            PyDict(("Planning Time" :> 500) @@ ("Plan" :> node)),
            PyDict("Plan" :> node),
            PyList(<<TopLevel(500, 2000, node)>>)} : node \in RawNodes}
    \cup {PyDict(("Planning Time" :> 500) @@ ("Execution Time" :> 2000)),
          PyList(<<("Planning Time" :> 500) @@ ("Execution Time" :> 2000)>>),
          PyDict(EmptyDict),
          PyList(<<>>)}

PlanArgs ==
    {PyDict(TopLevel(500, 2000, tree)) :
        tree \in RawTrees \cup DetectorTrees \cup BranchingTrees}
    \cup SmallPlans

\* What execute_explain returns: {'plan': ..., 'row_count': ...}.
ProviderResults == {[plan |-> p, row_count |-> 7] : p \in PlanArgs}

\* The times of the plans compared: multiples of a millisecond up to MaxTicks.
MaxTicks == 4

TimeValues == {k * 1000 : k \in 0..MaxTicks}

CompareResults ==
    {[plan |-> PyDict(TopLevel(planning, execution, tree)), row_count |-> 7] :
        planning \in TimeValues, execution \in TimeValues,
        tree \in {NodeSeqOrders, NodeIndexOrders @@ ("Plans" :> <<NodeBare>>)}}
    \cup {[plan |-> PyDict("Plan" :> NodeSeqOrders), row_count |-> 7],
          [plan |-> PyDict(("Planning Time" :> 1000) @@ ("Execution Time" :> 4000)),
           row_count |-> 7]}

----------------------------------------------------------------------------
(* analyze_query, one step per call it makes *)

Init ==
    /\ pc = "start"
    /\ result = None
    /\ metrics = None
    /\ raised = ""
    /\ problems = None
    /\ recommendations = None
    /\ cpc = "idle"
    /\ provided = None
    /\ requested = <<>>
    /\ original = None
    /\ optimized = None
    /\ comparison = None
    /\ handed = None
    /\ lpc = "idle"
    /\ filesystem = None
    /\ config_data = None
    /\ db_config = None
    /\ checked = <<>>
    /\ app_config = None
    /\ epc = "idle"
    /\ query = None
    /\ server = None
    /\ conn = None
    /\ plan = None
    /\ opened = 0
    /\ closes = 0
    /\ statements = <<>>
    /\ explain_result = None

\* Line 23: result = self.db_manager.execute_explain(query_text)
ExecuteExplain ==
    /\ pc = "start"
    /\ \E explained \in ProviderResults : result' = explained
    /\ pc' = "explained"
    /\ UNCHANGED <<metrics, raised, detectVars, compareVars>>
    /\ UNCHANGED <<reportVars, loaderVars, explainVars>>

\* Line 25: metrics = calculate_performance_metrics(result['plan'])
CalculatePerformanceMetrics ==
    /\ pc = "explained"
    /\ LET calculated == calculate_performance_metrics(result.plan)
       IN IF calculated.raised # ""
          THEN /\ raised' = calculated.raised
               /\ pc' = "raised"
               /\ UNCHANGED metrics
          ELSE /\ metrics' = calculated.value
               /\ pc' = "calculated"
               /\ UNCHANGED raised
    /\ UNCHANGED <<result, detectVars, compareVars>>
    /\ UNCHANGED <<reportVars, loaderVars, explainVars>>

\* Line 27: problems = self.analyze_node_problems(metrics.node_metrics)
AnalyzeNodeProblems ==
    /\ pc = "calculated"
    /\ LET found == analyze_node_problems(metrics.node_metrics)
       IN IF found.raised # ""
          THEN /\ raised' = found.raised
               /\ pc' = "raised"
               /\ UNCHANGED problems
          ELSE /\ problems' = found.value
               /\ pc' = "problems"
               /\ UNCHANGED raised
    /\ UNCHANGED <<result, metrics, recommendations, compareVars>>
    /\ UNCHANGED <<reportVars, loaderVars, explainVars>>

\* Lines 28-37: recommendations = self.analyze_index_recommendations(...), and
\* the dict is returned.
AnalyzeIndexRecommendations ==
    /\ pc = "problems"
    /\ recommendations' = analyze_index_recommendations(metrics.node_metrics)
    /\ pc' = "returned"
    /\ UNCHANGED <<result, metrics, raised, problems, compareVars>>
    /\ UNCHANGED <<reportVars, loaderVars, explainVars>>

Next ==
    \/ ExecuteExplain
    \/ CalculatePerformanceMetrics
    \/ AnalyzeNodeProblems
    \/ AnalyzeIndexRecommendations

Spec == Init /\ [][Next]_vars

----------------------------------------------------------------------------
(* compare_queries, one step per call it makes *)

InitCompare ==
    /\ cpc = "start"
    /\ provided \in CompareResults \X CompareResults
    /\ requested = <<>>
    /\ original = None
    /\ optimized = None
    /\ comparison = None
    /\ raised = ""
    /\ pc = "idle"
    /\ result = None
    /\ metrics = None
    /\ problems = None
    /\ recommendations = None
    /\ handed = None
    /\ lpc = "idle"
    /\ filesystem = None
    /\ config_data = None
    /\ db_config = None
    /\ checked = <<>>
    /\ app_config = None
    /\ epc = "idle"
    /\ query = None
    /\ server = None
    /\ conn = None
    /\ plan = None
    /\ opened = 0
    /\ closes = 0
    /\ statements = <<>>
    /\ explain_result = None

\* Line 149: original = self.analyze_query(original_path), which calls
\* execute_explain once with the text of the file.
AnalyzeOriginal ==
    /\ cpc = "start"
    /\ requested' = Append(requested, read_text("original.sql"))
    /\ LET analysed == analyze_query("original.sql", provided[Len(requested) + 1])
       IN IF analysed.raised # ""
          THEN /\ raised' = analysed.raised
               /\ cpc' = "raised"
               /\ UNCHANGED original
          ELSE /\ original' = analysed.value
               /\ cpc' = "original"
               /\ UNCHANGED raised
    /\ UNCHANGED <<provided, optimized, comparison, pc, result, metrics, detectVars>>
    /\ UNCHANGED <<reportVars, loaderVars, explainVars>>

\* The second analysis handed the plan of the first.
AnalyzeOptimizedOnFirstPlan ==
    /\ cpc = "original"
    /\ requested' = Append(requested, read_text("optimized.sql"))
    /\ LET analysed == analyze_query("optimized.sql", provided[1])
       IN IF analysed.raised # ""
          THEN /\ raised' = analysed.raised
               /\ cpc' = "raised"
               /\ UNCHANGED optimized
          ELSE /\ optimized' = analysed.value
               /\ cpc' = "optimized"
               /\ UNCHANGED raised
    /\ UNCHANGED <<provided, original, comparison, pc, result, metrics, detectVars>>
    /\ UNCHANGED <<reportVars, loaderVars, explainVars>>

\* Line 150: optimized = self.analyze_query(optimized_path)
AnalyzeOptimized ==
    /\ cpc = "original"
    /\ requested' = Append(requested, read_text("optimized.sql"))
    /\ LET analysed == analyze_query("optimized.sql", provided[Len(requested) + 1])
       IN IF analysed.raised # ""
          THEN /\ raised' = analysed.raised
               /\ cpc' = "raised"
               /\ UNCHANGED optimized
          ELSE /\ optimized' = analysed.value
               /\ cpc' = "optimized"
               /\ UNCHANGED raised
    /\ UNCHANGED <<provided, original, comparison, pc, result, metrics, detectVars>>
    /\ UNCHANGED <<reportVars, loaderVars, explainVars>>

\* Lines 155-180: the improvements and the returned dict.
side(analysed) ==
    [metrics         |-> analysed.metrics,
     problems        |-> analysed.problems,
     recommendations |-> analysed.recommendations,
     query           |-> analysed.query_text,
     raw_plan        |-> analysed.raw_plan]

compare_result(orig, opt) ==
    LET exec_time_improvement ==
            improvement(orig.metrics.execution_time, opt.metrics.execution_time)
        planning_time_improvement ==
            improvement(orig.metrics.planning_time, opt.metrics.planning_time)
    IN IF exec_time_improvement.raised # ""
       THEN exec_time_improvement
       ELSE IF planning_time_improvement.raised # ""
       THEN planning_time_improvement
       ELSE Return([original     |-> side(orig),
                    optimized    |-> side(opt),
                    improvements |->
                        [execution_time |-> exec_time_improvement.value,
                         planning_time  |-> planning_time_improvement.value]])

ReturnComparison ==
    /\ cpc = "optimized"
    /\ LET compared == compare_result(original, optimized)
       IN IF compared.raised # ""
          THEN /\ raised' = compared.raised
               /\ cpc' = "raised"
               /\ UNCHANGED comparison
          ELSE /\ comparison' = compared.value
               /\ cpc' = "returned"
               /\ UNCHANGED raised
    /\ UNCHANGED <<provided, requested, original, optimized, pc, result, metrics, detectVars>>
    /\ UNCHANGED <<reportVars, loaderVars, explainVars>>

\* analyze_queries, lines 205-216: the four arguments both report generators
\* are called with, after metrics_data = analyzer.compare_queries(...).
report_arguments(metrics_data) ==
    [metrics_data          |-> metrics_data,
     original_problems     |-> Get(metrics_data.original, "problems", <<>>),
     optimized_problems    |-> Get(metrics_data.optimized, "problems", <<>>),
     index_recommendations |-> Get(metrics_data, "index_recommendations", <<>>)]

GenerateReports ==
    /\ cpc = "returned"
    /\ handed' = report_arguments(comparison)
    /\ cpc' = "reported"
    /\ UNCHANGED <<provided, requested, original, optimized, comparison, raised>>
    /\ UNCHANGED <<pc, result, metrics, detectVars, loaderVars, explainVars>>

NextCompare ==
    \/ AnalyzeOriginal
    \/ AnalyzeOptimized
    \/ ReturnComparison
    \/ GenerateReports

SpecCompare == InitCompare /\ [][NextCompare]_vars

----------------------------------------------------------------------------
(* src/utils/config.py: ConfigLoader.load_config, one step per statement *)

\* What yaml.safe_load returns: None for a file without a document, else the
\* mapping of the document.
YamlEmpty == [is_none |-> TRUE]
YamlMapping(d) == [is_none |-> FALSE, dict |-> d]

\* The 'database' sections loaded: complete, with the optional keys left
\* out, with 'host' alone (tests/test_config.py), and without 'user'.
DatabaseSections ==
    {("host" :> "db.example") @@ ("port" :> 6432) @@ ("dbname" :> "test_db") @@
        ("user" :> "test_user") @@ ("password" :> "test_pass"),
     ("dbname" :> "test_db") @@ ("user" :> "test_user"),
     ("host" :> "localhost"),
     ("host" :> "localhost") @@ ("dbname" :> "test_db")}

\* Line 31
required_fields == <<"database", "original_query", "optimized_query">>

\* A mapping cut down to some of its keys.
Restrict(d, keys) == [k \in DOMAIN d \cap keys |-> d[k]]

\* The documents loaded: every choice of the three top-level fields, and the
\* empty document.
Documents ==
    {YamlEmpty} \cup
    {YamlMapping(Restrict(("database" :> section) @@
                          ("original_query" :> "queries/original.sql") @@
                          ("optimized_query" :> "queries/optimized.sql"), present)) :
        section \in DatabaseSections, present \in SUBSET Range(required_fields)}

\* Path(text)
Path(text) == [path |-> text]

\* The files there are: the config file or not, what it loads as, and which
\* of the two query files exist.
FileSystems ==
    {[config_exists |-> TRUE, document |-> document, existing |-> existing] :
        document \in Documents,
        existing \in SUBSET {Path("queries/original.sql"), Path("queries/optimized.sql")}}
    \cup
    {[config_exists |-> FALSE, existing |-> existing] :
        existing \in SUBSET {Path("queries/original.sql"), Path("queries/optimized.sql")}}

\* field not in config_data, for the fields in order: the first field that is
\* missing raises ValueError; `in` on None raises TypeError.
validate_required_fields(data) ==
    IF data.is_none
    THEN Raise("TypeError")
    ELSE LET missing == {i \in 1..Len(required_fields) :
                            required_fields[i] \notin DOMAIN data.dict}
         IN IF missing # {}
            THEN [raised |-> "ValueError", field |-> required_fields[Min(missing)]]
            ELSE Return(data)

\* Lines 37-43: DatabaseConfig(host=..., port=..., dbname=..., user=..., password=...)
DatabaseConfig(database) ==
    IF "dbname" \notin DOMAIN database \/ "user" \notin DOMAIN database
    THEN Raise("KeyError")
    ELSE Return([host     |-> Get(database, "host", "localhost"),
                 port     |-> Get(database, "port", 5432),
                 dbname   |-> database["dbname"],
                 user     |-> database["user"],
                 password |-> Get(database, "password", "")])

InitConfig ==
    /\ lpc = "start"
    /\ filesystem \in FileSystems
    /\ config_data = None
    /\ db_config = None
    /\ checked = <<>>
    /\ app_config = None
    /\ raised = ""
    /\ pc = "idle"
    /\ result = None
    /\ metrics = None
    /\ problems = None
    /\ recommendations = None
    /\ cpc = "idle"
    /\ provided = None
    /\ requested = <<>>
    /\ original = None
    /\ optimized = None
    /\ comparison = None
    /\ handed = None
    /\ epc = "idle"
    /\ query = None
    /\ server = None
    /\ conn = None
    /\ plan = None
    /\ opened = 0
    /\ closes = 0
    /\ statements = <<>>
    /\ explain_result = None

\* Lines 24-25
CheckConfigPath ==
    /\ lpc = "start"
    /\ IF filesystem.config_exists
       THEN lpc' = "found" /\ UNCHANGED raised
       ELSE lpc' = "raised" /\ raised' = "FileNotFoundError"
    /\ UNCHANGED <<filesystem, config_data, db_config, checked, app_config>>
    /\ UNCHANGED <<pc, result, metrics, detectVars, compareVars, reportVars, explainVars>>

\* Lines 27-28
SafeLoad ==
    /\ lpc = "found"
    /\ config_data' = filesystem.document
    /\ lpc' = "loaded"
    /\ UNCHANGED <<filesystem, db_config, checked, app_config, raised>>
    /\ UNCHANGED <<pc, result, metrics, detectVars, compareVars, reportVars, explainVars>>

\* Lines 31-34
ValidateRequiredFields ==
    /\ lpc = "loaded"
    /\ LET validated == validate_required_fields(config_data)
       IN IF validated.raised # ""
          THEN lpc' = "raised" /\ raised' = validated.raised
          ELSE lpc' = "validated" /\ UNCHANGED raised
    /\ UNCHANGED <<filesystem, config_data, db_config, checked, app_config>>
    /\ UNCHANGED <<pc, result, metrics, detectVars, compareVars, reportVars, explainVars>>

\* Lines 37-43
LoadDatabaseConfig ==
    /\ lpc = "validated"
    /\ LET built == DatabaseConfig(config_data.dict["database"])
       IN IF built.raised # ""
          THEN lpc' = "raised" /\ raised' = built.raised /\ UNCHANGED db_config
          ELSE lpc' = "database" /\ db_config' = built.value /\ UNCHANGED raised
    /\ UNCHANGED <<filesystem, config_data, checked, app_config>>
    /\ UNCHANGED <<pc, result, metrics, detectVars, compareVars, reportVars, explainVars>>

\* Lines 46-53: the original query file is looked for first, the optimized one
\* when it is there.
ValidateQueryFiles ==
    /\ lpc = "database"
    /\ LET original_query == Path(config_data.dict["original_query"])
           optimized_query == Path(config_data.dict["optimized_query"])
       IN IF original_query \notin filesystem.existing
          THEN /\ checked' = <<original_query>>
               /\ lpc' = "raised"
               /\ raised' = "FileNotFoundError"
          ELSE /\ checked' = <<original_query, optimized_query>>
               /\ IF optimized_query \notin filesystem.existing
                  THEN lpc' = "raised" /\ raised' = "FileNotFoundError"
                  ELSE lpc' = "files" /\ UNCHANGED raised
    /\ UNCHANGED <<filesystem, config_data, db_config, app_config>>
    /\ UNCHANGED <<pc, result, metrics, detectVars, compareVars, reportVars, explainVars>>

\* Lines 55-59
ReturnAppConfig ==
    /\ lpc = "files"
    /\ app_config' = [database        |-> db_config,
                      original_query  |-> checked[1],
                      optimized_query |-> checked[2]]
    /\ lpc' = "returned"
    /\ UNCHANGED <<filesystem, config_data, db_config, checked, raised>>
    /\ UNCHANGED <<pc, result, metrics, detectVars, compareVars, reportVars, explainVars>>

NextConfig ==
    \/ CheckConfigPath
    \/ SafeLoad
    \/ ValidateRequiredFields
    \/ LoadDatabaseConfig
    \/ ValidateQueryFiles
    \/ ReturnAppConfig

SpecConfig == InitConfig /\ [][NextConfig]_vars

----------------------------------------------------------------------------
(* src/core/database.py: DatabaseManager.execute_explain inside              *)
(* get_connection, one step per statement                                   *)

\* The most rows the plain query returns.
MaxRows == 2

\* Lines 42-50: the EXPLAIN statement built around the query.
explain_query(text) ==
    <<"EXPLAIN (ANALYZE true, BUFFERS true, TIMING true, COSTS true, VERBOSE true, FORMAT JSON)",
      text>>

\* What fetchall() gives after the EXPLAIN: one row of one column, the JSON
\* document, a list holding the plan.
explain_rows(top) == << << <<top>> >> >>

\* What fetchall() gives after the plain query: its rows of one column.
query_rows(n) == [i \in 1..n |-> <<i>>]

\* What cursor.execute followed by cursor.fetchall() ends with: an exception
\* of one of the two, or the rows fetched.
Fails(exception) == [raises |-> exception, rows |-> <<>>]
Gives(rows) == [raises |-> "", rows |-> rows]

\* Whether psycopg2.connect succeeds, and what the database does for each of
\* the two statements: execute raises DatabaseError, fetchall raises
\* ProgrammingError for a statement that gives no rows to fetch, or the rows
\* are fetched.
Servers ==
    {[connects |-> FALSE]}
    \cup {[connects |-> TRUE, explain |-> Fails("DatabaseError")]}
    \cup {[connects |-> TRUE,
           explain  |-> Gives(explain_rows(TopLevel(500, 2000, node))),
           plain    |-> outcome] :
            node \in RawNodes,
            outcome \in {Fails("DatabaseError"), Fails("ProgrammingError")}
                            \cup {Gives(query_rows(n)) : n \in 0..MaxRows}}

InitExplain ==
    /\ epc = "start"
    /\ query \in {read_text("original.sql"), read_text("optimized.sql")}
    /\ server \in Servers
    /\ conn = None
    /\ plan = None
    /\ opened = 0
    /\ closes = 0
    /\ statements = <<>>
    /\ explain_result = None
    /\ raised = ""
    /\ pc = "idle"
    /\ result = None
    /\ metrics = None
    /\ problems = None
    /\ recommendations = None
    /\ cpc = "idle"
    /\ provided = None
    /\ requested = <<>>
    /\ original = None
    /\ optimized = None
    /\ comparison = None
    /\ handed = None
    /\ lpc = "idle"
    /\ filesystem = None
    /\ config_data = None
    /\ db_config = None
    /\ checked = <<>>
    /\ app_config = None

\* Lines 26-35: conn = None; conn = psycopg2.connect(...); yield conn.  When
\* connect raises, control goes to the finally with conn still None.
Connect ==
    /\ epc = "start"
    /\ IF server.connects
       THEN /\ conn' = "open"
            /\ opened' = opened + 1
            /\ epc' = "connected"
            /\ UNCHANGED raised
       ELSE /\ raised' = "OperationalError"
            /\ epc' = "finally"
            /\ UNCHANGED <<conn, opened>>
    /\ UNCHANGED <<query, server, plan, closes, statements, explain_result>>
    /\ UNCHANGED <<pc, result, metrics, detectVars, compareVars, reportVars, loaderVars>>

\* Lines 52-53: cursor.execute(explain_query); plan = cursor.fetchall()[0][0]
ExplainStatement ==
    /\ epc = "connected"
    /\ statements' = Append(statements, explain_query(query))
    /\ IF server.explain.raises # ""
       THEN /\ raised' = server.explain.raises
            /\ epc' = "finally"
            /\ UNCHANGED plan
       ELSE /\ plan' = server.explain.rows[1][1]
            /\ epc' = "explained"
            /\ UNCHANGED raised
    /\ UNCHANGED <<query, server, conn, opened, closes, explain_result>>
    /\ UNCHANGED <<pc, result, metrics, detectVars, compareVars, reportVars, loaderVars>>

\* Lines 55-62: cursor.execute(query); row_count = len(cursor.fetchall());
\* return {'plan': plan[0], 'row_count': row_count}
QueryStatement ==
    /\ epc = "explained"
    /\ statements' = Append(statements, query)
    /\ IF server.plain.raises # ""
       THEN /\ raised' = server.plain.raises
            /\ UNCHANGED explain_result
       ELSE /\ explain_result' = [plan |-> plan[1], row_count |-> Len(server.plain.rows)]
            /\ UNCHANGED raised
    /\ epc' = "finally"
    /\ UNCHANGED <<query, server, conn, plan, opened, closes>>
    /\ UNCHANGED <<pc, result, metrics, detectVars, compareVars, reportVars, loaderVars>>

\* The connection closed when the body returned and left open when it raised.
CloseAfterReturnOnly ==
    /\ epc = "finally"
    /\ IF conn # None /\ raised = ""
       THEN conn' = "closed" /\ closes' = closes + 1
       ELSE UNCHANGED <<conn, closes>>
    /\ epc' = IF raised # "" THEN "raised" ELSE "returned"
    /\ UNCHANGED <<query, server, plan, opened, statements, explain_result, raised>>
    /\ UNCHANGED <<pc, result, metrics, detectVars, compareVars, reportVars, loaderVars>>

\* Lines 36-38: finally: if conn: conn.close(), on a return and on an
\* exception alike; the return or the exception then leaves execute_explain.
Finally ==
    /\ epc = "finally"
    /\ IF conn # None
       THEN conn' = "closed" /\ closes' = closes + 1
       ELSE UNCHANGED <<conn, closes>>
    /\ epc' = IF raised # "" THEN "raised" ELSE "returned"
    /\ UNCHANGED <<query, server, plan, opened, statements, explain_result, raised>>
    /\ UNCHANGED <<pc, result, metrics, detectVars, compareVars, reportVars, loaderVars>>

NextExplain ==
    \/ Connect
    \/ ExplainStatement
    \/ QueryStatement
    \/ Finally

SpecExplain == InitExplain /\ [][NextExplain]_vars

----------------------------------------------------------------------------
(* Reference definitions for the properties: the nodes of a tree by position *)

\* The positions of a raw tree: the path of child indices from the root.
RECURSIVE RawPaths(_)
RawPaths(node) ==
    LET plans == Get(node, "Plans", <<>>)
    IN {<<>>} \cup UNION {{<<i>> \o path : path \in RawPaths(plans[i])} : i \in 1..Len(plans)}

RECURSIVE RawAt(_, _)
RawAt(node, path) ==
    IF path = <<>> THEN node ELSE RawAt(node["Plans"][Head(path)], Tail(path))

\* The same for a NodeMetrics tree.
RECURSIVE NodePaths(_)
NodePaths(node) ==
    {<<>>} \cup UNION {{<<i>> \o path : path \in NodePaths(node.children[i])} :
                          i \in 1..Len(node.children)}

RECURSIVE NodeAt(_, _)
NodeAt(node, path) ==
    IF path = <<>> THEN node ELSE NodeAt(node.children[Head(path)], Tail(path))

\* The sum of F over a finite set, taken in no particular order.
RECURSIVE SumOver(_, _)
SumOver(F(_), S) ==
    IF S = {} THEN 0 ELSE LET x == CHOOSE y \in S : TRUE IN F(x) + SumOver(F, S \ {x})

\* The raw tree handed to extract_node_metrics once the metrics are calculated.
RawRoot ==
    (IF result.plan.is_list THEN result.plan.items[1] ELSE result.plan.dict)["Plan"]

Calculated == pc = "calculated"

Compared == cpc = "returned"

\* r = n / d * 100, for a fraction r and d > 0
IsPercentOf(r, n, d) == r.den > 0 /\ r.num * d = n * 100 * r.den

----------------------------------------------------------------------------
(* Properties *)

\* C1: when the original execution time is above 0, compare_queries returns
\* improvements.execution_time = (original - optimized) / original * 100, and
\* likewise improvements.planning_time from the planning times; each is positive
\* exactly when the optimized time is the smaller and negative exactly when it is
\* the larger.
C1_ImprovementFormula ==
    Compared =>
        LET imp == comparison.improvements
            oe == original.metrics.execution_time
            pe == optimized.metrics.execution_time
            op == original.metrics.planning_time
            pp == optimized.metrics.planning_time
        IN /\ oe > 0 => /\ IsPercentOf(imp.execution_time, oe - pe, oe)
                        /\ imp.execution_time.num > 0 <=> pe < oe
                        /\ imp.execution_time.num < 0 <=> pe > oe
           /\ op > 0 => /\ IsPercentOf(imp.planning_time, op - pp, op)
                        /\ imp.planning_time.num > 0 <=> pp < op
                        /\ imp.planning_time.num < 0 <=> pp > op

\* 4.0 ms against 2.0 ms gives 50.0, with a regression in the planning time.
C1_Witness ==
    /\ Compared
    /\ original.metrics.execution_time = 4000
    /\ optimized.metrics.execution_time = 2000
    /\ comparison.improvements.execution_time = [num |-> 50, den |-> 1]
    /\ original.metrics.planning_time = 1000
    /\ optimized.metrics.planning_time = 3000
    /\ comparison.improvements.planning_time = [num |-> -200, den |-> 1]

\* C2: with an original execution time of 0 the execution-time improvement is 0
\* whatever the optimized time is, and nothing is raised; the same for the
\* planning time; and the two guards are independent: a zero original planning
\* time leaves the execution-time improvement as it is, and the other way round.
C2_ZeroOriginalGuard ==
    /\ cpc = "optimized" => compare_result(original, optimized).raised = ""
    /\ raised # "ZeroDivisionError"
    /\ Compared =>
        LET imp == comparison.improvements
            oe == original.metrics.execution_time
            pe == optimized.metrics.execution_time
            op == original.metrics.planning_time
            pp == optimized.metrics.planning_time
        IN /\ oe = 0 => imp.execution_time = Zero
           /\ op = 0 => imp.planning_time = Zero
           /\ (op = 0 /\ oe > 0) => IsPercentOf(imp.execution_time, oe - pe, oe)
           /\ (oe = 0 /\ op > 0) => IsPercentOf(imp.planning_time, op - pp, op)

\* A zero original execution time against a non-zero optimized one, beside a
\* planning time that did improve.
C2_Witness ==
    /\ Compared
    /\ original.metrics.execution_time = 0
    /\ optimized.metrics.execution_time = 3000
    /\ comparison.improvements.execution_time = Zero
    /\ original.metrics.planning_time = 2000
    /\ optimized.metrics.planning_time = 1000
    /\ comparison.improvements.planning_time = [num |-> 50, den |-> 1]

\* The I/O counter of a NodeMetrics field as the plan provider names it.
RawIoKey(key) ==
    CASE key = "shared_hit_blocks"     -> "Shared Hit Blocks"
      [] key = "shared_read_blocks"    -> "Shared Read Blocks"
      [] key = "shared_dirtied_blocks" -> "Shared Dirtied Blocks"
      [] key = "shared_written_blocks" -> "Shared Written Blocks"
      [] key = "temp_read_blocks"      -> "Temp Read Blocks"
      [] key = "temp_written_blocks"   -> "Temp Written Blocks"

\* The sum of a NodeMetrics field over every node of the tree.
TreeSum(root, field) ==
    LET F(path) == NodeAt(root, path)[field] IN SumOver(F, NodePaths(root))

\* The sum of a raw counter over every node of the raw tree, 0 where it is absent.
RawTreeSum(root, key) ==
    LET F(path) == Get(RawAt(root, path), key, 0) IN SumOver(F, RawPaths(root))

\* The tree with the children of every node in the opposite order.
RECURSIVE Mirror(_)
Mirror(node) ==
    LET n == Len(node.children)
    IN [node EXCEPT !.children = [i \in 1..n |-> Mirror(node.children[n + 1 - i])]]

\* C3: each of the six I/O totals is the sum of that counter over every node of
\* the tree, the root included, and it is the same whatever the order in which
\* the nodes are walked.
C3_IoTotalsAreTreeSums ==
    Calculated =>
        /\ DOMAIN metrics.io_metrics = IoKeys
        /\ \A key \in IoKeys :
            /\ metrics.io_metrics[key] = TreeSum(metrics.node_metrics, key)
            /\ metrics.io_metrics[key] = RawTreeSum(RawRoot, RawIoKey(key))
            /\ extract_io_metrics(Mirror(metrics.node_metrics))[key] = metrics.io_metrics[key]

\* A chain of three nodes, each with hit blocks of its own.
C3_Witness ==
    /\ Calculated
    /\ <<1, 1>> \in NodePaths(metrics.node_metrics)
    /\ \A path \in NodePaths(metrics.node_metrics) :
           NodeAt(metrics.node_metrics, path).shared_hit_blocks > 0
    /\ metrics.io_metrics["shared_hit_blocks"] = 10
    /\ metrics.io_metrics["temp_written_blocks"] = 6

\* Whether a fraction lies in [0, 100].
InPercentRange(r) == r.den > 0 /\ r.num >= 0 /\ r.num <= 100 * r.den

\* C4 as the specification words it: the hit rate lies in [0, 100] and is 0
\* exactly when the summed hit blocks plus the summed read blocks are 0.
C4_HitRateZeroIffNoAccess ==
    Calculated =>
        LET hit == TreeSum(metrics.node_metrics, "shared_hit_blocks")
            read == TreeSum(metrics.node_metrics, "shared_read_blocks")
            rate == metrics.buffer_stats.buffers_hit_rate
        IN /\ InPercentRange(rate)
           /\ rate = Zero <=> hit + read = 0

\* C4, amended: the hit rate lies in [0, 100], is hit / (hit + read) * 100 when
\* hit + read > 0, and is 0 exactly when the summed hit blocks are 0 (so also
\* whenever hit + read = 0).
C4_HitRateZeroIffNoHit ==
    Calculated =>
        LET hit == TreeSum(metrics.node_metrics, "shared_hit_blocks")
            read == TreeSum(metrics.node_metrics, "shared_read_blocks")
            rate == metrics.buffer_stats.buffers_hit_rate
        IN /\ InPercentRange(rate)
           /\ rate = Zero <=> hit = 0
           /\ hit + read = 0 => rate = Zero
           /\ hit + read > 0 => IsPercentOf(rate, hit, hit + read)

\* Blocks were read and none was found in the cache: the rate is 0.
C4_Witness ==
    /\ Calculated
    /\ TreeSum(metrics.node_metrics, "shared_hit_blocks") = 0
    /\ TreeSum(metrics.node_metrics, "shared_read_blocks") > 0
    /\ metrics.buffer_stats.buffers_hit_rate = Zero
    /\ Len(metrics.node_metrics.children) > 0

\* The positions of the nodes of one type.
PathsOfType(root, T) == {path \in NodePaths(root) : NodeAt(root, path).node_type = T}

\* C5: node_type_stats[T].count is the number of nodes of type T anywhere in the
\* tree; a type that no node has is no key; the counts add up to the number of
\* nodes.
C5_NodeTypeCounts ==
    Calculated =>
        LET root == metrics.node_metrics
            stats == metrics.node_type_stats
            Count(T) == stats[T].count
        IN /\ DOMAIN stats = {NodeAt(root, path).node_type : path \in NodePaths(root)}
           /\ \A T \in DOMAIN stats : stats[T].count = Cardinality(PathsOfType(root, T))
           /\ SumOver(Count, DOMAIN stats) = Cardinality(NodePaths(root))

\* Three nodes of two types, the repeated type once below the other.
C5_Witness ==
    /\ Calculated
    /\ Cardinality(DOMAIN metrics.node_type_stats) = 2
    /\ metrics.node_metrics.node_type = "Seq Scan"
    /\ metrics.node_type_stats["Seq Scan"].count = 2
    /\ <<1, 1>> \in PathsOfType(metrics.node_metrics, "Seq Scan")

\* C6: total_time, total_rows and total_cost of a type are the sums of
\* actual_time, actual_rows and total_cost as stored on its nodes, the time not
\* multiplied by actual_loops; so total_rows and total_cost summed over the types
\* are the sums of 'Actual Rows' and 'Total Cost' over the raw plan.
C6_NodeTypeTotals ==
    Calculated =>
        LET root == metrics.node_metrics
            stats == metrics.node_type_stats
            Time(path) == NodeAt(root, path).actual_time
            Rows(path) == NodeAt(root, path).actual_rows
            Cost(path) == NodeAt(root, path).total_cost
            RawTime(path) == Get(RawAt(RawRoot, path), "Actual Total Time", 0)
            TotalRows(T) == stats[T].total_rows
            TotalCost(T) == stats[T].total_cost
        IN /\ \A T \in DOMAIN stats :
                /\ stats[T].total_time = SumOver(Time, PathsOfType(root, T))
                /\ stats[T].total_time = SumOver(RawTime, PathsOfType(root, T))
                /\ stats[T].total_rows = SumOver(Rows, PathsOfType(root, T))
                /\ stats[T].total_cost = SumOver(Cost, PathsOfType(root, T))
           /\ SumOver(TotalRows, DOMAIN stats) = RawTreeSum(RawRoot, "Actual Rows")
           /\ SumOver(TotalCost, DOMAIN stats) = RawTreeSum(RawRoot, "Total Cost")

\* Two index scans that ran three loops each: their times are added as stored.
C6_Witness ==
    /\ Calculated
    /\ Cardinality(PathsOfType(metrics.node_metrics, "Index Scan")) = 2
    /\ \A path \in PathsOfType(metrics.node_metrics, "Index Scan") :
           /\ NodeAt(metrics.node_metrics, path).actual_loops = 3
           /\ NodeAt(metrics.node_metrics, path).actual_time = 20
    /\ metrics.node_type_stats["Index Scan"].total_time = 40
    /\ metrics.node_type_stats["Index Scan"].total_rows = 20

\* The nodes of a tree in the order analyze_table_stats meets them: a node, then
\* the subtrees of its children from the first to the last.
RECURSIVE PreOrder(_)
RECURSIVE PreOrderAll(_)
PreOrder(node) == <<node>> \o PreOrderAll(node.children)

PreOrderAll(nodes) ==
    IF Len(nodes) = 0 THEN <<>> ELSE PreOrder(Head(nodes)) \o PreOrderAll(Tail(nodes))

\* The nodes of a sequence that reference relation t, in their order.
Referencing(nodes, t) == SelectSeq(nodes, LAMBDA node : node.relation_name = t)

IsSequentialScan(T) == T = "Seq Scan"

IsIndexBasedScan(T) == T = "Index Scan"

\* The scan type after the node types of a relation in the order met: the first
\* one, given up for a later one only from a sequential to an index-based scan.
RECURSIVE ScanTypeAfter(_, _)
ScanTypeAfter(stored, later) ==
    IF Len(later) = 0
    THEN stored
    ELSE ScanTypeAfter(
             IF IsSequentialScan(stored) /\ IsIndexBasedScan(Head(later).node_type)
             THEN Head(later).node_type
             ELSE stored,
             Tail(later))

\* C7: for every relation name on at least one node, table_stats records the
\* sums of actual_rows and total_cost over the nodes referencing it and the scan
\* type of the first such node, replaced by a later node's type only when the
\* stored type is a sequential scan and the later one an index-based scan; a
\* node with an empty relation name adds to no entry.
C7_TableStats ==
    Calculated =>
        LET root == metrics.node_metrics
            stats == metrics.table_stats
            nodes == PreOrder(root)
        IN /\ DOMAIN stats = {nodes[i].relation_name : i \in 1..Len(nodes)} \ {""}
           /\ \A t \in DOMAIN stats :
                LET refs == Referencing(nodes, t)
                    Rows(i) == refs[i].actual_rows
                    Cost(i) == refs[i].total_cost
                IN /\ stats[t].rows = SumOver(Rows, 1..Len(refs))
                   /\ stats[t].cost = SumOver(Cost, 1..Len(refs))
                   /\ stats[t].scan_type = ScanTypeAfter(refs[1].node_type, Tail(refs))
                   /\ IsIndexBasedScan(refs[1].node_type) =>
                          stats[t].scan_type = refs[1].node_type
                   /\ ~IsSequentialScan(refs[1].node_type) =>
                          stats[t].scan_type = refs[1].node_type

\* A sequential scan of orders over an index scan and a second sequential scan
\* of it: the index scan replaces the first type and is kept after the later
\* sequential scan; rows and cost are those of the three.
C7_Witness ==
    /\ Calculated
    /\ metrics.node_metrics.node_type = "Seq Scan"
    /\ Len(metrics.node_metrics.children) = 2
    /\ metrics.node_metrics.children[1].node_type = "Index Scan"
    /\ metrics.node_metrics.children[2].node_type = "Seq Scan"
    /\ DOMAIN metrics.table_stats = {"orders"}
    /\ metrics.table_stats["orders"].scan_type = "Index Scan"
    /\ metrics.table_stats["orders"].rows = 10010
    /\ metrics.table_stats["orders"].cost = 40800

\* C8: extraction keeps the shape of the tree: a raw node with n entries under
\* 'Plans' gives a node with n children, the i-th the extraction of the i-th raw
\* child, at every depth; a raw node without 'Plans' gives a node without
\* children.
C8_ShapePreserved ==
    Calculated =>
        LET root == metrics.node_metrics
        IN /\ NodePaths(root) = RawPaths(RawRoot)
           /\ \A path \in RawPaths(RawRoot) :
                LET raw == RawAt(RawRoot, path)
                    node == NodeAt(root, path)
                IN /\ "Plans" \notin DOMAIN raw => Len(node.children) = 0
                   /\ "Plans" \in DOMAIN raw =>
                        /\ Len(node.children) = Len(raw["Plans"])
                        /\ \A i \in 1..Len(raw["Plans"]) :
                              node.children[i] = extract_node_metrics(raw["Plans"][i])
                   /\ node.node_type = Get(raw, "Node Type", "")
                   /\ node.actual_rows = Get(raw, "Actual Rows", 0)

\* A hash join over a sequential scan and a sort, in that order.
C8_Witness ==
    /\ Calculated
    /\ Get(RawRoot, "Node Type", "") = "Hash Join"
    /\ Len(Get(RawRoot, "Plans", <<>>)) = 2
    /\ metrics.node_metrics.node_type = "Hash Join"
    /\ Len(metrics.node_metrics.children) = 2
    /\ metrics.node_metrics.children[1].node_type = "Seq Scan"
    /\ metrics.node_metrics.children[2].node_type = "Sort"
    /\ Len(metrics.node_metrics.children[1].children) = 0

\* The NodeMetrics field that holds a raw key.
FieldOf(key) ==
    CASE key = "Node Type"              -> "node_type"
      [] key = "Actual Rows"            -> "actual_rows"
      [] key = "Actual Total Time"      -> "actual_time"
      [] key = "Actual Loops"           -> "actual_loops"
      [] key = "Plan Rows"              -> "planned_rows"
      [] key = "Total Cost"             -> "total_cost"
      [] key = "Startup Cost"           -> "startup_cost"
      [] key = "Shared Hit Blocks"      -> "shared_hit_blocks"
      [] key = "Shared Read Blocks"     -> "shared_read_blocks"
      [] key = "Shared Dirtied Blocks"  -> "shared_dirtied_blocks"
      [] key = "Shared Written Blocks"  -> "shared_written_blocks"
      [] key = "Temp Read Blocks"       -> "temp_read_blocks"
      [] key = "Temp Written Blocks"    -> "temp_written_blocks"
      [] key = "I/O Read Time"          -> "io_read_time"
      [] key = "I/O Write Time"         -> "io_write_time"
      [] key = "Filter"                 -> "filter"
      [] key = "Rows Removed by Filter" -> "rows_removed_by_filter"
      [] key = "Scan Direction"         -> "scan_direction"
      [] key = "Index Name"             -> "index_name"
      [] key = "Index Cond"             -> "index_cond"
      [] key = "Join Type"              -> "join_type"
      [] key = "Hash Cond"              -> "hash_condition"
      [] key = "Relation Name"          -> "relation_name"

\* Whether the raw plan has the root calculate_performance_metrics needs.
HasPlan(arg) ==
    IF arg.is_list
    THEN Len(arg.items) > 0 /\ "Plan" \in DOMAIN arg.items[1]
    ELSE "Plan" \in DOMAIN arg.dict

\* C9: extraction never fails over an absent optional field: at every depth an
\* absent numeric field is extracted as 0, an absent loop count as 1 and an
\* absent text field as empty, and a present field is copied as it is.
C9_DefaultsForAbsentFields ==
    /\ pc = "raised" => ~HasPlan(result.plan)
    /\ Calculated =>
        \A path \in RawPaths(RawRoot) :
            LET raw == RawAt(RawRoot, path)
                node == NodeAt(metrics.node_metrics, path)
            IN /\ \A key \in NumericKeys :
                    node[FieldOf(key)] = IF key \in DOMAIN raw THEN raw[key] ELSE 0
               /\ \A key \in LoopKeys :
                    node[FieldOf(key)] = IF key \in DOMAIN raw THEN raw[key] ELSE 1
               /\ \A key \in TextKeys :
                    node[FieldOf(key)] = IF key \in DOMAIN raw THEN raw[key] ELSE ""

\* An index scan with its three loops over a node that carries no key at all,
\* over a sequential scan without a loop count.
C9_Witness ==
    /\ Calculated
    /\ <<1, 1>> \in RawPaths(RawRoot)
    /\ Get(RawRoot, "Actual Loops", 1) = 3
    /\ metrics.node_metrics.actual_loops = 3
    /\ DOMAIN RawAt(RawRoot, <<1>>) = {"Plans"}
    /\ NodeAt(metrics.node_metrics, <<1>>).actual_loops = 1
    /\ NodeAt(metrics.node_metrics, <<1>>).node_type = ""
    /\ NodeAt(metrics.node_metrics, <<1>>).shared_read_blocks = 0
    /\ "Actual Loops" \notin DOMAIN RawAt(RawRoot, <<1, 1>>)
    /\ NodeAt(metrics.node_metrics, <<1, 1>>).relation_name = "customers"
    /\ NodeAt(metrics.node_metrics, <<1, 1>>).actual_loops = 1

\* Another value for a raw key of the data model.
OtherValue(key, value) ==
    CASE key = "Actual Startup Time" -> value + 1
      [] key = "Sort Key"            -> <<"o.id">>
      [] OTHER                       -> "(o.id = c.id)"

\* The raw node without one of its keys.
Without(raw, key) == [k \in DOMAIN raw \ {key} |-> raw[k]]

\* C10: extraction carries every field of the data model: startup time, merge
\* condition, join filter and sort keys of a raw node are on the extracted node,
\* so a raw node that differs from it in one of them only extracts to a
\* different node.
C10_EveryFieldCaptured ==
    Calculated =>
        \A path \in RawPaths(RawRoot) :
            LET raw == RawAt(RawRoot, path)
            IN \A key \in UnmappedKeys \cap DOMAIN raw :
                /\ extract_node_metrics(Without(raw, key)) # extract_node_metrics(raw)
                /\ extract_node_metrics([raw EXCEPT ![key] = OtherValue(key, @)])
                       # extract_node_metrics(raw)

\* C11, as the specification words it: a raw plan without the top-level 'Plan'
\* key, or whose root is no mapping, makes calculate_performance_metrics fail
\* with MalformedPlanError and return no PlanMetrics, and nothing else makes
\* analyze_query fail.
C11_MalformedPlanError ==
    /\ pc = "explained" /\ ~HasPlan(result.plan) =>
           calculate_performance_metrics(result.plan) = Raise("MalformedPlanError")
    /\ pc = "raised" =>
           /\ raised = "MalformedPlanError"
           /\ metrics = None
           /\ ~HasPlan(result.plan)

\* C12, as the specification words it: row_count is the row count the plan
\* provider returned beside the plan, whatever actual_rows the nodes of the
\* tree store, and total_time is planning_time + execution_time.
C12_RowCountFromProvider ==
    Calculated =>
        /\ metrics.row_count = result.row_count
        /\ metrics.total_time = metrics.planning_time + metrics.execution_time

\* Whether position p comes before position q in pre-order: p is above q, or
\* p turns to an earlier child where the two part.
Before(p, q) ==
    \/ Len(p) < Len(q) /\ SubSeq(q, 1, Len(p)) = p
    \/ \E i \in 1..Len(p) :
          /\ i <= Len(q)
          /\ SubSeq(p, 1, i - 1) = SubSeq(q, 1, i - 1)
          /\ p[i] < q[i]

\* The k-th position of a tree in pre-order.
PathAt(root, k) ==
    CHOOSE p \in NodePaths(root) :
        Cardinality({q \in NodePaths(root) : Before(q, p)}) = k - 1

\* The lists of a list of lists, one after the other.
RECURSIVE Flatten(_)
Flatten(lists) ==
    IF Len(lists) = 0 THEN <<>> ELSE Head(lists) \o Flatten(Tail(lists))

\* The problems of every node of a tree, one list per node, in pre-order.
ProblemsByNode(root) ==
    [k \in 1..Cardinality(NodePaths(root)) |->
        node_problems(NodeAt(root, PathAt(root, k))).value]

\* The number of the node, in pre-order, that the i-th problem of a list of
\* lists belongs to.
RECURSIVE OwnerOf(_, _)
OwnerOf(lists, i) ==
    IF i <= Len(Head(lists)) THEN 1 ELSE 1 + OwnerOf(Tail(lists), i - Len(Head(lists)))

Detected == pc \in {"problems", "returned"}

\* C13: analyze_node_problems ends on every tree and returns the problems of
\* every node once, in pre-order: the list is the problems of the root, then
\* those of each subtree from the first child to the last, so the problems of a
\* node stand before those of its descendants and of its later siblings,
\* whatever their severities.
C13_ProblemsInPreOrder ==
    /\ pc = "calculated" => analyze_node_problems(metrics.node_metrics).raised = ""
    /\ Detected =>
        LET root == metrics.node_metrics
            lists == ProblemsByNode(root)
        IN /\ problems = Flatten(lists)
           /\ \A i, j \in 1..Len(problems) :
                 LET p == PathAt(root, OwnerOf(lists, i))
                     q == PathAt(root, OwnerOf(lists, j))
                 IN Before(p, q) => i < j

\* A sort over a nested loop, itself over a sequential scan, and a second
\* sequential scan: the MEDIUM problem of the sort stands first, then the two
\* problems of the nested loop and the three of the scan below it, and the
\* three of the second scan last.
C13_Witness ==
    /\ Detected
    /\ NodePaths(metrics.node_metrics) = {<<>>, <<1>>, <<1, 1>>, <<2>>}
    /\ metrics.node_metrics.node_type = "Sort"
    /\ NodeAt(metrics.node_metrics, <<1>>).node_type = "Nested Loop"
    /\ NodeAt(metrics.node_metrics, <<1, 1>>).node_type = "Seq Scan"
    /\ NodeAt(metrics.node_metrics, <<2>>).node_type = "Seq Scan"
    /\ [i \in 1..Len(problems) |-> problems[i].severity] =
           <<"MEDIUM", "MEDIUM", "HIGH", "HIGH", "MEDIUM", "MEDIUM",
             "HIGH", "MEDIUM", "MEDIUM">>

\* The row-estimate rule as the specification states it, on the row counts
\* themselves: the ratio actual_rows / planned_rows is above 10 or below 0.1.
RatioRule(node) ==
    /\ node.planned_rows > 0
    /\ \/ node.actual_rows > 10 * node.planned_rows
       \/ 10 * node.actual_rows < node.planned_rows

\* The rules of the specification that hold on a node, each with its severity
\* and the text its problem starts with.
ExpectedProblems(node) ==
    (IF node.node_type = "Seq Scan" /\ node.actual_rows > 1000
     THEN <<<<"HIGH", "Sequential scan on large table">>>> ELSE <<>>)
    \o (IF RatioRule(node)
        THEN <<<<"MEDIUM", "Poor row estimation in">>>> ELSE <<>>)
    \o (IF node.node_type = "Sort" /\ node.actual_rows > 1000
        THEN <<<<"MEDIUM", "Expensive sort operation on">>>> ELSE <<>>)
    \o (IF node.node_type = "Nested Loop" /\ node.actual_rows > 1000
        THEN <<<<"HIGH", "Nested loop join with large number of rows">>>> ELSE <<>>)
    \o (IF node.rows_removed_by_filter > 1000
        THEN <<<<"MEDIUM", "Large number of rows removed by filter">>>> ELSE <<>>)

\* C14: the problems emitted for a node are the rules that hold on its own
\* fields, one problem a rule: HIGH for a 'Seq Scan' of more than 1000 rows,
\* MEDIUM for the row-estimate rule, MEDIUM for a 'Sort' of more than 1000 rows,
\* HIGH for a 'Nested Loop' of more than 1000 rows, MEDIUM for more than 1000
\* rows removed by the filter, and nothing at exactly 1000; so a tree of one
\* 'Seq Scan' above 1000 rows on which no other rule holds gives one problem, a
\* HIGH one.
C14_ProblemsAreTheRulesThatHold ==
    Detected =>
        LET root == metrics.node_metrics
            expected == Flatten([k \in 1..Cardinality(NodePaths(root)) |->
                                    ExpectedProblems(NodeAt(root, PathAt(root, k)))])
        IN /\ [i \in 1..Len(problems) |->
                  <<problems[i].severity, problems[i].description[1]>>] = expected
           /\ \A path \in NodePaths(root) :
                 LET node == NodeAt(root, path)
                     own == node_problems(node).value
                 IN /\ Len(own) = Len(ExpectedProblems(node))
                    /\ node.actual_rows = 1000 /\ node.rows_removed_by_filter <= 1000 =>
                           \A i \in 1..Len(own) : own[i].description[1] = "Poor row estimation in"
           /\ ( /\ NodePaths(root) = {<<>>}
                /\ root.node_type = "Seq Scan"
                /\ root.actual_rows > 1000
                /\ ~RatioRule(root)
                /\ root.rows_removed_by_filter <= 1000 ) =>
                  /\ Len(problems) = 1
                  /\ problems[1].severity = "HIGH"
                  /\ problems[1].description = <<"Sequential scan on large table",
                                                 root.actual_rows>>

\* A sequential scan of 5000 rows over one of exactly 1000 rows, with a ratio of
\* exactly 10 and exactly 1000 rows removed by its filter: one HIGH problem, for
\* the scan of 5000 rows.
C14_Witness ==
    /\ Detected
    /\ NodePaths(metrics.node_metrics) = {<<>>, <<1>>}
    /\ metrics.node_metrics.node_type = "Seq Scan"
    /\ metrics.node_metrics.actual_rows = 5000
    /\ NodeAt(metrics.node_metrics, <<1>>).node_type = "Seq Scan"
    /\ NodeAt(metrics.node_metrics, <<1>>).actual_rows = 1000
    /\ NodeAt(metrics.node_metrics, <<1>>).planned_rows = 100
    /\ NodeAt(metrics.node_metrics, <<1>>).rows_removed_by_filter = 1000
    /\ problems = <<Problem("HIGH", <<"Sequential scan on large table", 5000>>)>>

\* The problems of the row-estimate rule in a list.
RowEstimateProblems(found) ==
    SelectSeq(found, LAMBDA problem : problem.description[1] = "Poor row estimation in")

\* C15: the row-estimate rule gives a problem for a node exactly when
\* planned_rows > 0 and actual_rows / planned_rows is above 10 or below 0.1, and
\* its severity is MEDIUM however large the ratio is; a node with
\* planned_rows = 0 gives none whatever its actual_rows, and no division by
\* zero happens; a ratio of exactly 10 or exactly 0.1 gives none.
C15_RowEstimateRule ==
    /\ raised # "ZeroDivisionError"
    /\ pc = "calculated" =>
           analyze_node_problems(metrics.node_metrics).raised # "ZeroDivisionError"
    /\ Detected =>
        LET root == metrics.node_metrics
            poor == RowEstimateProblems(problems)
        IN /\ \A path \in NodePaths(root) :
                 LET node == NodeAt(root, path)
                     emitted == row_estimate_problem(node)
                 IN /\ emitted.raised = ""
                    /\ Len(emitted.value) = IF RatioRule(node) THEN 1 ELSE 0
                    /\ node.planned_rows = 0 => emitted.value = <<>>
                    /\ node.actual_rows = 10 * node.planned_rows => emitted.value = <<>>
                    /\ 10 * node.actual_rows = node.planned_rows => emitted.value = <<>>
                    /\ node.planned_rows = 10 /\ node.actual_rows = 1000 =>
                           /\ Len(emitted.value) = 1
                           /\ emitted.value[1].description[5] = [num |-> 100, den |-> 1]
                    /\ \A i \in 1..Len(emitted.value) :
                          /\ emitted.value[i].severity = "MEDIUM"
                          /\ \E j \in 1..Len(problems) : problems[j] = emitted.value[i]
           /\ Len(poor) = Cardinality({path \in NodePaths(root) : RatioRule(NodeAt(root, path))})
           /\ \A i \in 1..Len(poor) :
                 /\ poor[i].severity = "MEDIUM"
                 /\ \E path \in NodePaths(root) :
                       /\ RatioRule(NodeAt(root, path))
                       /\ poor[i].description[3] = NodeAt(root, path).planned_rows
                       /\ poor[i].description[4] = NodeAt(root, path).actual_rows

\* A merge join of 1000 rows estimated at 0 rows, over a sequential scan 50
\* times its estimate and a hash join at exactly a tenth of its estimate: one
\* problem of the rule, MEDIUM, for the scan.
C15_Witness ==
    /\ Detected
    /\ metrics.node_metrics.planned_rows = 0
    /\ metrics.node_metrics.actual_rows = 1000
    /\ Len(metrics.node_metrics.children) = 2
    /\ metrics.node_metrics.children[1].actual_rows = 5000
    /\ metrics.node_metrics.children[1].planned_rows = 100
    /\ metrics.node_metrics.children[2].actual_rows = 50
    /\ metrics.node_metrics.children[2].planned_rows = 500
    /\ RowEstimateProblems(problems) =
           <<Problem("MEDIUM", <<"Poor row estimation in", "Seq Scan", 100, 5000,
                                 [num |-> 50, den |-> 1]>>)>>

Returned == pc = "returned"

\* The columns each filter of the plans compares with =, < or >, as a reader of
\* the filter names them.
ComparedColumns(text) ==
    CASE text = "(status = 'open')" -> {"status"}
      [] text = "customer_id = 42"  -> {"customer_id"}
      [] text = "a = 1 AND a = 2"   -> {"a"}
      [] text = "name LIKE 'A%'"    -> {}
      [] text = "name LIKE 'A%' AND status = 'open'" -> {"status"}
      [] text = "o.total >= 100 OR id IN (1, 2)"     -> {"total"}
      [] text = ""                  -> {}

\* The recommendations of the sequential-scan rule in a list.
FromSeqScan(found) ==
    SelectSeq(found, LAMBDA recommendation :
        recommendation.reason[1] = "High row count sequential scan with filter on")

\* The sequential scans of a tree the rule is about, in pre-order.
LargeFilteredScans(root) ==
    SelectSeq(PreOrder(root), LAMBDA node :
        /\ node.node_type = "Seq Scan"
        /\ node.actual_rows > 1000
        /\ node.filter # ""
        /\ ComparedColumns(node.filter) # {})

QualifiedColumns(text) ==
    CASE text = "(o.customer_id = c.id)" -> ("o" :> {"customer_id"}) @@ ("c" :> {"id"})
      [] text = "(o.total > c.credit)"   -> ("o" :> {"total"}) @@ ("c" :> {"credit"})
      [] text = "t1.id = t2.id"          -> ("t1" :> {"id"}) @@ ("t2" :> {"id"})
      [] text = "(id = c.id)"            -> ("c" :> {"id"})
      [] text = ""                       -> EmptyDict

\* The condition field the reason of a recommendation names.
FieldNamedBy(reason) ==
    CASE reason[1] = "Hash join condition on" -> "Hash Cond"
      [] OTHER                                -> ""

\* C17, as the specification words it: on every Hash Join, Merge Join and
\* Nested Loop node each of the hash condition, the merge condition and the
\* join filter that is not empty gives, for every table it references as
\* table.column, a recommendation on that table with the columns referenced for
\* that table alone, its reason naming the condition field.
C17_JoinRecommendationsByTable ==
    Returned =>
        \A path \in RawPaths(RawRoot) :
            LET raw == RawAt(RawRoot, path)
            IN Get(raw, "Node Type", "") \in {"Hash Join", "Merge Join", "Nested Loop"} =>
                 \A key \in {"Hash Cond", "Merge Cond", "Join Filter"} :
                    LET by_table == QualifiedColumns(Get(raw, key, ""))
                    IN \A table \in DOMAIN by_table :
                          \E i \in 1..Len(recommendations) :
                             /\ recommendations[i].table = table
                             /\ Range(recommendations[i].columns) = by_table[table]
                             /\ FieldNamedBy(recommendations[i].reason) = key

\* A sort key without its table qualifier.
Unqualified(sort_key) ==
    CASE sort_key = "o.created_at" -> "created_at"
      [] sort_key = "o.id"         -> "id"

\* The nodes of a subtree that name a relation, in traversal order, the node
\* itself first.
NamedBelow(node) == SelectSeq(PreOrder(node), LAMBDA below : below.relation_name # "")

\* The recommendations of the sort rule in a list.
FromSort(found) ==
    SelectSeq(found, LAMBDA recommendation :
        recommendation.reason[1] = "sort operation on columns")

\* C18, as the specification words it: a Sort node with sort keys whose own
\* relation name, or else the first relation name below it in traversal order,
\* is not empty gives one recommendation on that table with all its sort keys,
\* their table qualifiers stripped; when no Sort node finds a table the sort
\* rule gives nothing.
C18_SortRecommendations ==
    Returned =>
        LET root == metrics.node_metrics
            Resolved(path) ==
                /\ Get(RawAt(RawRoot, path), "Node Type", "") = "Sort"
                /\ Get(RawAt(RawRoot, path), "Sort Key", <<>>) # <<>>
                /\ NamedBelow(NodeAt(root, path)) # <<>>
        IN /\ \A path \in RawPaths(RawRoot) :
                 Resolved(path) =>
                    LET sort_keys == RawAt(RawRoot, path)["Sort Key"]
                        table == NamedBelow(NodeAt(root, path))[1].relation_name
                    IN \E i \in 1..Len(recommendations) :
                          /\ recommendations[i].table = table
                          /\ recommendations[i].columns =
                                 [k \in 1..Len(sort_keys) |-> Unqualified(sort_keys[k])]
           /\ (\A path \in RawPaths(RawRoot) : ~Resolved(path)) =>
                  FromSort(recommendations) = <<>>

\* C19, as the specification words it: no two recommendations of the returned
\* list have the same table and the same set of columns.
C19_NoDuplicateRecommendations ==
    Returned =>
        \A i, j \in 1..Len(recommendations) :
            i < j =>
                ~ /\ recommendations[i].table = recommendations[j].table
                  /\ Range(recommendations[i].columns) = Range(recommendations[j].columns)

\* C20, as the specification words it: the columns of a returned
\* recommendation hold no column twice.
C20_NoDuplicateColumns ==
    Returned =>
        \A i \in 1..Len(recommendations) :
            Cardinality(Range(recommendations[i].columns)) = Len(recommendations[i].columns)

\* The parts the code cuts each condition text of the plans into, each with the
\* column a reader finds the code's patterns to name in it, or None for a part
\* they do not match.
FragmentColumns(text) ==
    CASE text = "(status = 'open')"      -> <<"status">>
      [] text = "customer_id = 42"       -> <<"customer_id">>
      [] text = "a = 1 AND a = 2"        -> <<"a", "a">>
      [] text = "name LIKE 'A%'"         -> <<None>>
      [] text = "name LIKE 'A%' AND status = 'open'" -> <<None, "status">>
      [] text = "o.total >= 100 OR id IN (1, 2)"     -> <<"total", None>>
      [] text = "(o.customer_id = c.id)" -> <<"customer_id", "id">>
      [] text = "t1.id = t2.id"          -> <<"id", "id">>
      [] text = "(id = c.id)"            -> <<None, "id">>
      [] text = ""                       -> <<>>

\* The columns of the parts that are matched, in the order of the parts.
Parsed(text) == SelectSeq(FragmentColumns(text), LAMBDA column : column # None)

\* What a node gives when the parts that do not match are skipped and nothing
\* else: the sequential-scan recommendation on the matched columns, then one
\* hash-join recommendation for every child that names a relation.
SkippingUnparsed(node) ==
    (IF /\ node.node_type = "Seq Scan"
        /\ node.actual_rows > 1000
        /\ Parsed(node.filter) # <<>>
     THEN <<IndexRecommendation(
                node.relation_name, Parsed(node.filter),
                <<"High row count sequential scan with filter on", Parsed(node.filter)>>)>>
     ELSE <<>>)
    \o
    (IF node.node_type = "Hash Join" /\ Parsed(node.hash_condition) # <<>>
     THEN LET named == SelectSeq(node.children, LAMBDA child : child.relation_name # "")
          IN [i \in 1..Len(named) |->
                 IndexRecommendation(
                     named[i].relation_name, Parsed(node.hash_condition),
                     <<"Hash join condition on", Parsed(node.hash_condition)>>)]
     ELSE <<>>)

\* C21: no condition text makes the recommendation engine raise: an analysis
\* that raised did so before its problems were found, so before any
\* recommendation was sought.  Every part of a filter
\* or join condition that cannot be parsed is skipped, the parts before and
\* after it still give their columns, and the nodes after a node whose
\* condition gave nothing are still processed: the list returned is what the
\* nodes give, in pre-order, from their matched parts.
C21_UnparsedFragmentsAreSkipped ==
    /\ raised # "" => pc = "raised" /\ problems = None /\ recommendations = None
    /\ Returned =>
          LET nodes == PreOrder(metrics.node_metrics)
          IN /\ recommendations =
                    Flatten([k \in 1..Len(nodes) |-> SkippingUnparsed(nodes[k])])
             /\ \A k \in 1..Len(nodes) :
                   /\ extract_columns_from_condition(nodes[k].filter) =
                          Parsed(nodes[k].filter)
                   /\ extract_join_columns(nodes[k].hash_condition) =
                          Parsed(nodes[k].hash_condition)

\* A scan whose whole filter is unparseable, above a scan whose filter has an
\* unparseable part after a matched one: the first gives nothing, the second
\* is still reached and gives the column of its matched part.
C21_Witness ==
    /\ Returned
    /\ metrics.node_metrics.filter = "name LIKE 'A%'"
    /\ metrics.node_metrics.actual_rows = 6000
    /\ Len(metrics.node_metrics.children) = 1
    /\ metrics.node_metrics.children[1].filter = "o.total >= 100 OR id IN (1, 2)"
    /\ metrics.node_metrics.children[1].actual_rows = 4000
    /\ Len(recommendations) = 1
    /\ recommendations[1].columns = <<"total">>

\* The column each part of a filter of the plans names before one of the
\* operators =, LIKE, >, <, >=, <=, IN, its qualifier stripped, part by part, as
\* a reader of the filter finds them.
OperandColumns(text) ==
    CASE text = "(status = 'open')" -> <<"status">>
      [] text = "customer_id = 42"  -> <<"customer_id">>
      [] text = "a = 1 AND a = 2"   -> <<"a", "a">>
      [] text = "name LIKE 'A%'"    -> <<"name">>
      [] text = "name LIKE 'A%' AND status = 'open'" -> <<"name", "status">>
      [] text = "o.total >= 100 OR id IN (1, 2)"     -> <<"total", "id">>
      [] text = ""                  -> <<>>

\* C22, as the specification words it: the columns extracted from a filter are,
\* for every part between AND and OR that holds one of =, LIKE, >, <, >=, <=,
\* IN, the token before the operator without its qualifier, and nothing for a
\* part that holds none of them.
C22_ColumnsBeforeEveryOperator ==
    Returned =>
        \A path \in NodePaths(metrics.node_metrics) :
            LET node == NodeAt(metrics.node_metrics, path)
            IN extract_columns_from_condition(node.filter) = OperandColumns(node.filter)

\* The PlanMetrics constructed from a plan-provider result.
Constructed(explained) == calculate_performance_metrics(explained.plan).value

\* An analysis as it stands once problem detection and index recommendation
\* have run on its metrics: the metrics are those constructed from the result
\* of the plan provider, the raw plan is that result, and running the two
\* detectors on the metrics again finds what they found.
Untouched(analysed, explained) ==
    /\ analysed.metrics = Constructed(explained)
    /\ analysed.raw_plan = explained
    /\ analyze_node_problems(analysed.metrics.node_metrics).value = analysed.problems
    /\ analyze_index_recommendations(analysed.metrics.node_metrics) =
           analysed.recommendations

FieldsWereChecked ==
    \/ lpc \in {"validated", "database", "files", "returned"}
    \/ lpc = "raised" /\ filesystem.config_exists

\* The loaded configuration lacks one of the required top-level fields.
LacksRequiredField(document) ==
    \/ document.is_none
    \/ \E i \in 1..Len(required_fields) : required_fields[i] \notin DOMAIN document.dict

\* C24, as stated: whenever the loaded configuration lacks one of database,
\* original_query, optimized_query, load_config raises ValueError and returns
\* no configuration, and it does so before any database sub-field is read and
\* before any query file is looked for.
C24_MissingFieldIsValueError ==
    (FieldsWereChecked /\ LacksRequiredField(filesystem.document)) =>
        /\ raised = "ValueError"
        /\ lpc = "raised"
        /\ checked = <<>>
        /\ db_config = None
        /\ app_config = None

\* What analyze_query is to return for a query file of the given text and a
\* plan-provider result: the text, the two times of the plan (0 for a time the
\* plan does not carry), and the whole result with its 'plan' and 'row_count'.
ReturnsTextTimesAndResult(analysed, text, explained) ==
    LET top == explained.plan.dict
    IN /\ analysed.query_text = text
       /\ analysed.metrics.planning_time = Get(top, "Planning Time", 0)
       /\ analysed.metrics.execution_time = Get(top, "Execution Time", 0)
       /\ analysed.raw_plan = explained
       /\ DOMAIN analysed.raw_plan = {"plan", "row_count"}

\* C25: whenever analyze_query returns, query_text is the text of the query
\* file, the planning_time and execution_time of the metrics are the plan's
\* 'Planning Time' and 'Execution Time', and raw_plan is the complete result
\* of the plan provider, row count included, not its 'plan' member.
C25_AnalyzeQueryResult ==
    /\ cpc \in {"original", "optimized", "returned"} =>
          ReturnsTextTimesAndResult(original, "SELECT * FROM test;", provided[1])
    /\ cpc \in {"optimized", "returned"} =>
          ReturnsTextTimesAndResult(optimized, "SELECT id FROM test;", provided[2])

\* The original query analysed on a plan of 1 ms planning and 4 ms execution.
C25_Witness ==
    /\ cpc = "original"
    /\ original.query_text = "SELECT * FROM test;"
    /\ original.metrics.planning_time = 1000
    /\ original.metrics.execution_time = 4000
    /\ original.raw_plan.row_count = 7
    /\ original.raw_plan.plan.dict["Execution Time"] = 4000

\* PlanMetrics has been constructed.
Constructing == pc \in {"calculated", "problems", "returned"}

\* C26: for every plan tree the buffer statistics and the io metrics, each
\* summed over the tree by its own traversal, agree: buffers_hit,
\* buffers_read, buffers_dirtied and buffers_written are shared_hit_blocks,
\* shared_read_blocks, shared_dirtied_blocks and shared_written_blocks.
C26_BufferStatsAgreeWithIoMetrics ==
    Constructing =>
        /\ metrics.buffer_stats.buffers_hit = metrics.io_metrics["shared_hit_blocks"]
        /\ metrics.buffer_stats.buffers_read = metrics.io_metrics["shared_read_blocks"]
        /\ metrics.buffer_stats.buffers_dirtied =
               metrics.io_metrics["shared_dirtied_blocks"]
        /\ metrics.buffer_stats.buffers_written =
               metrics.io_metrics["shared_written_blocks"]

\* A tree of three nodes, every one with block counters of its own: the
\* two sums hold the counters of the children as well.
C26_Witness ==
    /\ pc = "calculated"
    /\ metrics.node_metrics.shared_hit_blocks = 3
    /\ Len(metrics.node_metrics.children) = 2
    /\ metrics.node_metrics.children[1].shared_read_blocks = 2
    /\ metrics.node_metrics.children[2].shared_dirtied_blocks = 2
    /\ metrics.buffer_stats.buffers_hit = 8
    /\ metrics.buffer_stats.buffers_read = 3
    /\ metrics.buffer_stats.buffers_dirtied = 3
    /\ metrics.io_metrics["shared_hit_blocks"] = 8

\* The texts of the two query files, the original first.
BothQueries == <<read_text("original.sql"), read_text("optimized.sql")>>

\* What one analysis gives of itself on a plan-provider result.
Findings(explained) ==
    LET constructed == Constructed(explained)
    IN [metrics         |-> constructed,
        problems        |-> analyze_node_problems(constructed.node_metrics).value,
        recommendations |-> analyze_index_recommendations(constructed.node_metrics)]

FindingsOf(analysed) ==
    [metrics         |-> analysed.metrics,
     problems        |-> analysed.problems,
     recommendations |-> analysed.recommendations]

\* C27: compare_queries asks for the plan of the original query first and of
\* the optimized query second, each once; the improvements are computed only
\* after both analyses have completed; what an analysis finds depends on the
\* plan of its own query alone, whatever the plan of the other; and when an
\* analysis or the comparison fails no comparison is returned.
C27_OriginalThenOptimizedThenCompare ==
    /\ [](/\ Len(requested) <= 2
          /\ requested = SubSeq(BothQueries, 1, Len(requested)))
    /\ [](cpc = "start" => requested = <<>>)
    /\ [](cpc = "original" =>
            requested = <<BothQueries[1]>> /\ FindingsOf(original) = Findings(provided[1]))
    /\ [](cpc \in {"optimized", "returned"} =>
            /\ requested = BothQueries
            /\ FindingsOf(original) = Findings(provided[1])
            /\ FindingsOf(optimized) = Findings(provided[2]))
    /\ [](Compared =>
            /\ FindingsOf(comparison.original) = Findings(provided[1])
            /\ FindingsOf(comparison.optimized) = Findings(provided[2])
            /\ comparison.improvements.execution_time =
                   improvement(original.metrics.execution_time,
                               optimized.metrics.execution_time).value)
    /\ [](cpc = "raised" => comparison = None /\ raised # "")
    /\ [][/\ cpc' = "original" => cpc = "start"
          /\ cpc' = "optimized" => cpc = "original"
          /\ cpc' = "returned" => cpc = "optimized"
          /\ cpc' = "raised" => comparison' = None]_vars

\* A comparison returned for two different plans: the original one a
\* sequential scan with problems, the optimized one an index scan without.
C27_Witness ==
    /\ Compared
    /\ requested = <<"SELECT * FROM test;", "SELECT id FROM test;">>
    /\ provided[1] # provided[2]
    /\ comparison.original.metrics.node_metrics.node_type = "Seq Scan"
    /\ comparison.optimized.metrics.node_metrics.node_type = "Index Scan"
    /\ comparison.original.problems # <<>>
    /\ comparison.optimized.problems = <<>>
    /\ comparison.improvements.execution_time = [num |-> 50, den |-> 1]

\* execute_explain is left: by its return or by an exception.
Left == epc \in {"returned", "raised"}

\* C28: execute_explain opens at most one connection and closes it exactly
\* once on every way out: after the return, and when the EXPLAIN statement or
\* the plain query after it raises; it is never closed while statements are
\* still to run; the EXPLAIN is the first statement and the plain query the
\* second; and when connecting failed nothing is closed and no statement run.
C28_ConnectionClosedExactlyOnce ==
    /\ closes <= opened /\ opened <= 1
    /\ Left => closes = opened
    /\ Left /\ opened = 1 => conn = "closed"
    /\ epc \in {"connected", "explained"} => conn = "open" /\ closes = 0
    /\ epc # "start" /\ ~server.connects =>
          opened = 0 /\ closes = 0 /\ statements = <<>> /\ raised = "OperationalError"
    /\ statements = SubSeq(<<explain_query(query), query>>, 1, Len(statements))
    /\ epc = "returned" =>
          /\ statements = <<explain_query(query), query>>
          /\ raised = ""
          /\ opened = 1
    /\ epc = "raised" => raised # "" /\ explain_result = None

\* The plain query raised after the EXPLAIN had succeeded: the connection
\* that was opened is closed, once.
C28_Witness ==
    /\ epc = "raised"
    /\ raised = "DatabaseError"
    /\ statements = <<explain_query("SELECT id FROM test;"), "SELECT id FROM test;">>
    /\ opened = 1
    /\ closes = 1
    /\ conn = "closed"

\* The reports were generated.
Reported == cpc = "reported"

\* C29, as stated: the index recommendations handed to the report generators
\* are those compare_queries computed: every recommendation of the analysis
\* of the original and of the optimized query is in the list handed over, so
\* the list is not empty when an analysis produced one.
C29_RecommendationsReachReports ==
    Reported =>
        \A found \in Range(comparison.original.recommendations)
                        \cup Range(comparison.optimized.recommendations) :
            found \in Range(handed.index_recommendations)

\* C30, as stated: every recommendation analyze_index_recommendations returns
\* names a table that is not empty and at least one column, whatever the plan
\* tree: also for a large filtered sequential scan without relation name and
\* for hash joins over children without relation name.
C30_RecommendationsNameTableAndColumns ==
    Returned =>
        \A i \in 1..Len(recommendations) :
            /\ recommendations[i].table # ""
            /\ Len(recommendations[i].columns) >= 1

====
